---- MODULE Spec2Model ----
(***************************************************************************)
(* A model of the Crypton content ingestion and synchronisation pipeline:  *)
(*   - article ingestion and URL dedup (article_processer.py, db_func.py), *)
(*   - the vector sync state machine (vector_db.py,                        *)
(*     jobs/batch_vector_db_sync.py),                                      *)
(* over the tables declared in django_config.py.                           *)
(***************************************************************************)
EXTENDS Integers, Sequences, FiniteSets, TLC

\* ------------------------------------------------------------------ bounds
\* runs of process_source_directory per behaviour
MaxRuns == 2
\* direct calls of write_article_to_db per behaviour
MaxWrites == 3
\* sync and retry calls per behaviour
MaxOps == 3

\* ------------------------------------------------------------ input domains
None == "None"
\* an exception in the place of a value
RAISED == "RAISED"
GNEWS == "news.google.com"
SourceNames == {"example.com", GNEWS}
\* links found in <item><link> elements
FileLinks == {"a", "b"}
\* the URL on another host that a news.google.com link redirects to
Redirect(link) == IF link = "a" THEN "r1" ELSE "r2"
ResolvedUrls == {Redirect(l) : l \in FileLinks}
\* an <item>: its link and whether it carries <content:encoded>
Items == [link : FileLinks, inline : BOOLEAN]
\* a directory: one file of one or two items, or that and a one-item file
FileChoices == {<<i>> : i \in Items} \cup {<<i, j>> : i \in Items, j \in Items}
DirChoices == {<<f>> : f \in FileChoices} \cup {<<f, <<i>> >> : f \in FileChoices, i \in Items}

Workers == {1, 2}

\* the stored articles the sync reads (fetch_articles_from_db), by uuid: for each
\* chunk that prepare_article_for_embedding yields, whether its text has the 10
\* characters prepare_vectors_batch asks for
ArticleChunks == <<
  <<TRUE>>,          \* 1: an article within the word budget
  <<FALSE>>,         \* 2: an article with (almost) no text
  <<TRUE, TRUE>> >>  \* 3: an article over the word budget, two chunks
ArticleUuids == DOMAIN ArticleChunks
DefaultNamespace == "rss-feeds"
Namespaces == {DefaultNamespace, "other"}
BatchSizes == {1, 3}
UPSERT_ERROR == "Failed to upsert vectors to Pinecone"

VARIABLES
  rss_articles,      \* table rss_feed_articles: rows [url, uuid]
  article_metadata,  \* table article_metadata: rows [uuid, url, content]
  failed_articles,   \* table failed_articles, in insertion order
  uuidCtr,           \* number of uuid4() values generated so far
  source_name,       \* the source directory of this behaviour
  xml_files,         \* the *.xml files of the directory, sorted
  pc,                \* "idle" or "phase2" of process_source_directory
  existing_urls,     \* the run's in-memory known-URL set
  fileIdx, itemIdx,  \* position of the phase 2 loops
  started,           \* process_xml_file_efficiently entered for file fileIdx
  stats,             \* stats of the file being processed
  total_stats,       \* total_stats of the run
  last,              \* what the last operation did
  nRuns, nWrites,
  \* two concurrent ingestions (two runs of the pipeline on one store)
  wpc,               \* each worker's position in process_single_article
  witem,             \* the <item> each worker processes
  wknown,            \* each worker's own existing_urls
  wuuid,             \* each worker's article_uuid
  wres,              \* how each worker's call ended
  \* vector sync
  tracking,          \* table vector_db_tracking
  failed_embeddings, \* table failed_vector_embeddings, in insertion order
  vectors,           \* what the vector store holds: [uuid, chunk, namespace]
  sync_pc,           \* "idle", "batches" (upsert_articles_to_pinecone) or "retry"
  sync_ns,           \* namespace of the call in progress
  batch_size,
  to_process,        \* articles_to_process
  bi,                \* start of the next batch in to_process
  sync_stats,
  failed_records,    \* retry_failed_embeddings: what get_failed_embeddings returned
  ri,                \* next record of failed_records
  slast,             \* what the last sync or retry step did
  nOps,              \* sync and retry calls made
  \* chunking of one article
  ch_pc,             \* "off", "input", "chunked" or "prepared"
  ch_article,        \* the article: its uuid and the words of its text
  ch_budget,         \* pinecone.max_words_per_chunk
  ch_embedOk,        \* embed_texts_batch returned
  ch_chunks,         \* what prepare_article_for_embedding returned
  ch_vectors,        \* what prepare_vectors_batch returned
  \* one call of get_article_content
  ex_pc,             \* "off", "input", "loop" or "done"
  ex_host,           \* netloc of the url argument
  ex_config,         \* config.yaml: extractor_mapping, default_extractor_method
  ex_arg,            \* the method argument (None: ask the configuration)
  ex_outcome,        \* what each strategy's library calls do for this url
  ex_method,         \* the method in force
  ex_idx,            \* position of the loop over methods.items()
  ex_calls,          \* the strategies invoked so far, in order
  ex_result,         \* the value returned
  ex_raised,         \* an exception left get_article_content
  \* feed download runs (download_sites_feeds, download_gnews_feeds)
  fd_pc,             \* "off", "idle", "loop" or "ended"
  fd_disk,           \* rss_hashes.json: feed url -> hash
  fd_hashes,         \* the run's hashes dict
  fd_files,          \* the feed documents written for parsing: [url, doc]
  fd_i,              \* position of the loop over the feeds
  fd_interrupted,    \* shutdown.interrupted
  fd_unfinished,     \* the feed whose processing the process exit cut short
  fd_last,           \* what the last step did
  fd_runs,           \* download runs started
  fd_handled,        \* the written feed documents whose items were all parsed and ingested
  \* one call of process_articles_to_db
  db_pc,             \* "off", "start", "loop", "returned" or "exited"
  db_dirs,           \* sorted(source_dirs)
  db_i,              \* position of the loop over the source directories
  db_stats,          \* its stats dict
  db_counts,         \* the total_stats each process_source_directory call ended with
  db_interrupted,    \* shutdown.interrupted
  db_ret,            \* the value returned
  \* calls of log_failed_article and log_failed_embedding on their own
  lg_kind,           \* "off", "article" or "embedding": the ledger the calls write
  lg_pc,             \* each caller: "idle", or "read" after its filter(...).first()
  lg_arg,            \* each caller's arguments
  lg_seen,           \* each caller's `existing`: the row's place and its attempt_count
  lg_calls,          \* number of calls made for each key
  lg_faulted,        \* a call met a store error
  lg_n,              \* calls started
  lg_last,           \* the arguments of the last call
  \* one call of get_redirected_url and what process_single_article makes of it
  rs_pc,             \* "off", "start", "loop", "after", "returned" or "processed"
  rs_url,            \* the url argument
  rs_final,          \* final_url
  rs_attempt,        \* attempt of the loop
  rs_waits,          \* the time.sleep calls made, in seconds
  rs_ret,            \* the value returned
  rs_last            \* what process_single_article did with it

ingestVars == <<rss_articles, article_metadata, failed_articles, uuidCtr, source_name,
                xml_files, pc, existing_urls, fileIdx, itemIdx, started, stats,
                total_stats, last, nRuns, nWrites>>

concVars == <<wpc, witem, wknown, wuuid, wres>>

syncVars == <<tracking, failed_embeddings, vectors, sync_pc, sync_ns, batch_size, to_process,
              bi, sync_stats, failed_records, ri, slast, nOps>>

chunkVars == <<ch_pc, ch_article, ch_budget, ch_embedOk, ch_chunks, ch_vectors>>

\* the variables of the parts modelled on their own
extractVars == <<ex_pc, ex_host, ex_config, ex_arg, ex_outcome, ex_method, ex_idx, ex_calls,
                 ex_result, ex_raised>>

feedVars == <<fd_pc, fd_disk, fd_hashes, fd_files, fd_i, fd_interrupted, fd_unfinished,
              fd_last, fd_runs, fd_handled>>

dbVars == <<db_pc, db_dirs, db_i, db_stats, db_counts, db_interrupted, db_ret>>

lgVars == <<lg_kind, lg_pc, lg_arg, lg_seen, lg_calls, lg_faulted, lg_n, lg_last>>

rsVars == <<rs_pc, rs_url, rs_final, rs_attempt, rs_waits, rs_ret, rs_last>>

auxVars == <<chunkVars, extractVars, feedVars, dbVars, lgVars, rsVars>>

vars == <<ingestVars, concVars, syncVars, auxVars>>

ZeroSyncStats == [total |-> 0, upserted |-> 0, failed |-> 0, skipped |-> 0, already_synced |-> 0]
ZeroStats == [processed |-> 0, skipped |-> 0, failed |-> 0]
NoLast == [op |-> "none"]

\* ------------------------------------------------------------------ tables
\* (mutant) a table whose url column lost unique=True
CreateRejected_UuidOnly(rows, url, uuid) ==
  \E r \in rows : r.uuid = uuid

\* RSSFeedArticle: url unique=True, uuid unique=True
CreateRejected(rows, url, uuid) ==
  \E r \in rows : r.url = url \/ r.uuid = uuid

\* get_existing_urls: every url of rss_feed_articles
get_existing_urls(rows) == {r.url : r \in rows}

RowsFor(rows, url) == {r \in rows : r.url = url}

\* index of the first row of a table (a sequence) satisfying uuid = u, 0 if none
FirstIdx(tbl, u) ==
  IF \E i \in 1..Len(tbl) : tbl[i].uuid = u
  THEN CHOOSE i \in 1..Len(tbl) : tbl[i].uuid = u /\ \A j \in 1..(i-1) : tbl[j].uuid # u
  ELSE 0

\* (mutant) a log_failed_article that creates a row at every call
log_failed_article_Create(tbl, u, url, etype, msg) ==
  Append(tbl, [uuid |-> u, url |-> url, error_type |-> etype, error_message |-> msg,
               attempt_count |-> 1])

\* log_failed_article(config, article_uuid, article_url, error_type, error_message)
log_failed_article(tbl, u, url, etype, msg) ==
  LET i == FirstIdx(tbl, u) IN
  IF i # 0
  THEN [tbl EXCEPT ![i] = [@ EXCEPT !.attempt_count = @ + 1, !.error_message = msg,
                                    !.error_type = etype, !.url = url]]
  ELSE Append(tbl, [uuid |-> u, url |-> url, error_type |-> etype, error_message |-> msg,
                    attempt_count |-> 1])

\* ------------------------------------------------------- write_article_to_db
\* The call at its line 175 passes four arguments to the five-parameter
\* log_failed_article: it raises TypeError before touching the table, and the
\* outer handler turns that into return False.
WriteArticle(rows, meta, failed, link, uuid, content, metaFault) ==
  IF CreateRejected(rows, link, uuid)
  THEN [rows |-> rows, meta |-> meta, failed |-> failed, ret |-> FALSE, branch |-> "duplicate"]
  ELSE LET rows2 == rows \cup {[url |-> link, uuid |-> uuid]} IN
       IF metaFault
       THEN [rows |-> rows2, meta |-> meta, failed |-> failed, ret |-> FALSE, branch |-> "failed"]
       ELSE [rows |-> rows2,
             meta |-> meta \cup {[uuid |-> uuid, url |-> link, content |-> content]},
             failed |-> failed, ret |-> TRUE, branch |-> "inserted"]

\* --------------------------------------------------- process_single_article
\* line 284: return success, "processed" if success else "failed"
ItemStatus(success) == IF success THEN "processed" ELSE "failed"

\* line 221
AlreadyKnown(link, known) == link \in known

\* line 310: stats[status] += 1
Bump_FailedLost(s, status) == IF status = "failed" THEN s ELSE [s EXCEPT ![status] = @ + 1]

Bump(s, status) == [s EXCEPT ![status] = @ + 1]

\* One call of process_single_article on `item`, from the tables (rows, meta,
\* failed), the known-URL set and the uuid counter. resolveOut is what
\* get_redirected_url returns, fetchOut what get_article_content returns.
process_single_article(item, src, known, rows, meta, failed, ctr, resolveOut, fetchOut, metaFault) ==
  LET same == [rows |-> rows, meta |-> meta, failed |-> failed, known |-> known] IN
  IF AlreadyKnown(item.link, known)
  THEN same @@ [ctr |-> ctr, status |-> "skipped", branch |-> "known", link |-> item.link, uuid |-> 0]
  ELSE
    LET article_uuid == ctr + 1
        resolving == ~item.inline /\ src = GNEWS
        link == IF resolving /\ resolveOut \notin {None, RAISED} THEN resolveOut ELSE item.link
        fail(etype) ==
          [same EXCEPT !.failed = log_failed_article(failed, article_uuid, link, etype,
                                                     "error with " \o link)]
            @@ [ctr |-> article_uuid, status |-> "failed", branch |-> etype,
                link |-> link, uuid |-> article_uuid]
    IN
    IF resolving /\ resolveOut = None THEN fail("url_resolution_failed")
    ELSE IF resolving /\ resolveOut = RAISED THEN fail("url_resolution_error")
    ELSE IF ~item.inline /\ fetchOut = None THEN fail("content_extraction_failed")
    ELSE
      LET content == IF item.inline THEN "xml" ELSE "web_fetched"
          w == WriteArticle(rows, meta, failed, link, article_uuid, content, metaFault)
      IN [rows |-> w.rows, meta |-> w.meta, failed |-> w.failed,
          known |-> IF w.ret THEN known \cup {link} ELSE known,
          ctr |-> article_uuid, status |-> ItemStatus(w.ret), branch |-> w.branch,
          link |-> link, uuid |-> article_uuid]

\* ------------------------------------------------- process_source_directory
\* extract_unique_urls_from_xml
extract_unique_urls_from_xml(file) == {file[i].link : i \in 1..Len(file)}

AllUrls(files) == UNION {extract_unique_urls_from_xml(files[i]) : i \in 1..Len(files)}

\* (mutant) a phase 2 that takes every file that has items
FileHasNew_Any(file, known) == file # <<>>

\* line 409-410: the file holds a URL that is not known
FileHasNew(file, known) == extract_unique_urls_from_xml(file) \ known # {}

InitStore ==
  /\ rss_articles = {}
  /\ article_metadata = {}
  /\ failed_articles = <<>>
  /\ uuidCtr = 0
  /\ source_name \in SourceNames
  /\ xml_files \in DirChoices
  /\ pc = "idle"
  /\ existing_urls = {}
  /\ fileIdx = 0
  /\ itemIdx = 0
  /\ started = FALSE
  /\ stats = ZeroStats
  /\ total_stats = ZeroStats
  /\ last = NoLast
  /\ nRuns = 0
  /\ nWrites = 0

\* no concurrent ingestion is going on
WorkersOff ==
  /\ wpc = [w \in Workers |-> "off"]
  /\ witem = [w \in Workers |-> [link |-> "a", inline |-> TRUE]]
  /\ wknown = [w \in Workers |-> {}]
  /\ wuuid = [w \in Workers |-> 0]
  /\ wres = [w \in Workers |-> "none"]

\* no sync or retry call has been made
SyncIdle ==
  /\ tracking = {}
  /\ failed_embeddings = <<>>
  /\ vectors = {}
  /\ sync_pc = "idle"
  /\ sync_ns = DefaultNamespace
  /\ batch_size = 1
  /\ to_process = <<>>
  /\ bi = 1
  /\ sync_stats = ZeroSyncStats
  /\ failed_records = <<>>
  /\ ri = 1
  /\ slast = NoLast
  /\ nOps = 0

\* no article is being chunked
ChunkIdle ==
  /\ ch_pc = "off"
  /\ ch_article = [uuid |-> "u1", words |-> <<>>]
  /\ ch_budget = 1
  /\ ch_embedOk = TRUE
  /\ ch_chunks = <<>>
  /\ ch_vectors = <<>>

\* no extraction is running
ExtractIdle ==
  /\ ex_pc = "off"
  /\ ex_host = "other.org"
  /\ ex_config = [extractor_mapping |-> <<>>, default_extractor_method |-> "all"]
  /\ ex_arg = None
  /\ ex_outcome = <<>>
  /\ ex_method = None
  /\ ex_idx = 1
  /\ ex_calls = <<>>
  /\ ex_result = None
  /\ ex_raised = FALSE

\* feed urls of the configuration (sites.urls, or the urls built from gnews.params)
FeedUrls == <<"f1", "f2">>
NoHashes == [u \in {FeedUrls[i] : i \in DOMAIN FeedUrls} |-> None]

\* no download run
FeedIdle ==
  /\ fd_pc = "off"
  /\ fd_disk = NoHashes
  /\ fd_hashes = NoHashes
  /\ fd_files = {}
  /\ fd_i = 1
  /\ fd_interrupted = FALSE
  /\ fd_unfinished = None
  /\ fd_last = NoLast
  /\ fd_runs = 0
  /\ fd_handled = {}

\* main.py line 137
ZeroSummary == [processed |-> 0, skipped |-> 0, failed |-> 0, total |-> 0]

\* no call of process_articles_to_db
DbIdle ==
  /\ db_pc = "off"
  /\ db_dirs = <<>>
  /\ db_i = 1
  /\ db_stats = ZeroSummary
  /\ db_counts = <<>>
  /\ db_interrupted = FALSE
  /\ db_ret = ZeroSummary

\* the callers of the ledger functions
Loggers == {1, 2}
LedgerUuids == {1, 2}
LedgerChunks == {0, 1}
LedgerKeys(kind) ==
  [uuid : LedgerUuids, chunk_index : IF kind = "embedding" THEN LedgerChunks ELSE {0}]
NoRow == [pk |-> 0, attempt_count |-> 0]
NoArg == [key |-> [uuid |-> 0, chunk_index |-> 0], error_type |-> None]

\* no call of a ledger function on its own
LedgerIdle ==
  /\ lg_kind = "off"
  /\ lg_pc = [w \in Loggers |-> "idle"]
  /\ lg_arg = [w \in Loggers |-> NoArg]
  /\ lg_seen = [w \in Loggers |-> NoRow]
  /\ lg_calls = [k \in LedgerKeys("embedding") |-> 0]
  /\ lg_faulted = FALSE
  /\ lg_n = 0
  /\ lg_last = NoLast

\* no call of get_redirected_url
ResolveIdle ==
  /\ rs_pc = "off"
  /\ rs_url = None
  /\ rs_final = None
  /\ rs_attempt = 1
  /\ rs_waits = <<>>
  /\ rs_ret = None
  /\ rs_last = NoLast

AuxIdle == ChunkIdle /\ ExtractIdle /\ FeedIdle /\ DbIdle /\ LedgerIdle /\ ResolveIdle

Init == InitStore /\ WorkersOff /\ SyncIdle /\ AuxIdle

\* process_source_directory up to the phase 2 loop
StartRun ==
  /\ pc = "idle"
  /\ nRuns < MaxRuns
  /\ nRuns' = nRuns + 1
  /\ LET known == get_existing_urls(rss_articles)
         new_urls == AllUrls(xml_files) \ known
     IN /\ existing_urls' = known
        /\ pc' = IF new_urls = {} THEN "idle" ELSE "phase2"
        /\ last' = [op |-> "start", new_urls |-> new_urls]
  /\ fileIdx' = 1
  /\ itemIdx' = 1
  /\ started' = FALSE
  /\ stats' = ZeroStats
  /\ total_stats' = ZeroStats
  /\ UNCHANGED <<rss_articles, article_metadata, failed_articles, uuidCtr, source_name,
                 xml_files, nWrites>>
  /\ UNCHANGED <<concVars, syncVars, auxVars>>

\* phase 2 reaches a file without a new URL: it is not processed
SkipFile ==
  /\ pc = "phase2"
  /\ fileIdx <= Len(xml_files)
  /\ ~started
  /\ ~FileHasNew(xml_files[fileIdx], existing_urls)
  /\ fileIdx' = fileIdx + 1
  /\ last' = [op |-> "skipfile", file |-> fileIdx]
  /\ UNCHANGED <<rss_articles, article_metadata, failed_articles, uuidCtr, source_name,
                 xml_files, pc, existing_urls, itemIdx, started, stats, total_stats,
                 nRuns, nWrites>>
  /\ UNCHANGED <<concVars, syncVars, auxVars>>

\* one iteration of the loop of process_xml_file_efficiently (lines 308-310); the
\* last one also returns the file's stats to process_source_directory (413-414)
ProcessItem ==
  /\ pc = "phase2"
  /\ fileIdx <= Len(xml_files)
  /\ started \/ FileHasNew(xml_files[fileIdx], existing_urls)
  /\ \E resolveOut \in {Redirect(xml_files[fileIdx][itemIdx].link), None}, fetchOut \in {"text", None}, metaFault \in BOOLEAN :
       LET file == xml_files[fileIdx]
           r == process_single_article(file[itemIdx], source_name, existing_urls, rss_articles,
                                       article_metadata, failed_articles, uuidCtr,
                                       resolveOut, fetchOut, metaFault)
           s == Bump(stats, r.status)
           lastItem == itemIdx = Len(file)
       IN /\ rss_articles' = r.rows
          /\ article_metadata' = r.meta
          /\ failed_articles' = r.failed
          /\ existing_urls' = r.known
          /\ uuidCtr' = r.ctr
          /\ last' = [op |-> "item", status |-> r.status, branch |-> r.branch,
                      link |-> r.link, uuid |-> r.uuid, item |-> file[itemIdx],
                      failedBefore |-> stats.failed, failedAfter |-> s.failed,
                      file |-> fileIdx, index |-> itemIdx, counted |-> s,
                      firstOfRun |-> ~started /\ total_stats = ZeroStats]
          /\ IF lastItem
             THEN /\ fileIdx' = fileIdx + 1
                  /\ itemIdx' = 1
                  /\ started' = FALSE
                  /\ stats' = ZeroStats
                  /\ total_stats' = [k \in DOMAIN total_stats |-> total_stats[k] + s[k]]
             ELSE /\ itemIdx' = itemIdx + 1
                  /\ started' = TRUE
                  /\ stats' = s
                  /\ UNCHANGED <<fileIdx, total_stats>>
  /\ UNCHANGED <<source_name, xml_files, pc, nRuns, nWrites>>
  /\ UNCHANGED <<concVars, syncVars, auxVars>>

\* the phase 2 loop is over
EndRun ==
  /\ pc = "phase2"
  /\ fileIdx > Len(xml_files)
  /\ pc' = "idle"
  /\ last' = [op |-> "end"]
  /\ UNCHANGED <<rss_articles, article_metadata, failed_articles, uuidCtr, source_name,
                 xml_files, existing_urls, fileIdx, itemIdx, started, stats, total_stats,
                 nRuns, nWrites>>
  /\ UNCHANGED <<concVars, syncVars, auxVars>>

\* a call of write_article_to_db (db_func.write_article_to_db) outside a run; the
\* caller passes the _uuid of a stored article, or none (0)
DirectWrite ==
  /\ pc = "idle"
  /\ nWrites < MaxWrites
  /\ nWrites' = nWrites + 1
  /\ \E link \in FileLinks \cup ResolvedUrls, given \in {0} \cup {r.uuid : r \in rss_articles},
        metaFault \in BOOLEAN :
       LET fresh == given = 0
           article_uuid == IF fresh THEN uuidCtr + 1 ELSE given
           w == WriteArticle(rss_articles, article_metadata, failed_articles, link,
                             article_uuid, "xml", metaFault)
       IN /\ rss_articles' = w.rows
          /\ article_metadata' = w.meta
          /\ failed_articles' = w.failed
          /\ uuidCtr' = IF fresh THEN uuidCtr + 1 ELSE uuidCtr
          /\ last' = [op |-> "write", ret |-> w.ret, branch |-> w.branch, link |-> link,
                      uuid |-> article_uuid, stored |-> RowsFor(rss_articles, link)]
  /\ UNCHANGED <<source_name, xml_files, pc, existing_urls, fileIdx, itemIdx, started,
                 stats, total_stats, nRuns>>
  /\ UNCHANGED <<concVars, syncVars, auxVars>>

\* runs of process_source_directory over one directory
Next == StartRun \/ SkipFile \/ ProcessItem \/ EndRun

Spec == Init /\ [][Next]_vars

\* sequences of write_article_to_db calls on an empty store
InitWrite ==
  /\ Init
  /\ source_name = "example.com"
  /\ xml_files = << <<[link |-> "a", inline |-> TRUE]>> >>

NextWrite == DirectWrite

SpecWrite == InitWrite /\ [][NextWrite]_vars

\* ============================================================== vector sync
\* (mutant) a sync that does not look at the tracking table
is_article_synced_Never(trk, u, ns) == FALSE

\* is_article_synced_to_vector_db
is_article_synced_to_vector_db(trk, u, ns) ==
  \E r \in trk : r.article_uuid = u /\ r.namespace = ns /\ r.status = "synced"

\* VectorDatabaseTracking: article_uuid unique=True
TrackingCreateRejected(trk, u) == \E r \in trk : r.article_uuid = u

\* tracking_model.objects.filter(article_uuid=..., namespace=...)
Existing(trk, u, ns) == {r \in trk : r.article_uuid = u /\ r.namespace = ns}

\* (mutant) an update that leaves error_message as it was
mark_article_as_synced_KeepError(trk, u, ns, vector_id, total_chunks) ==
  IF Existing(trk, u, ns) # {}
  THEN LET e == CHOOSE r \in Existing(trk, u, ns) : TRUE IN
       (trk \ {e}) \cup {[e EXCEPT !.status = "synced", !.vector_id = vector_id,
                                   !.total_chunks = total_chunks,
                                   !.synced_chunks = total_chunks]}
  ELSE IF TrackingCreateRejected(trk, u) THEN trk
  ELSE trk \cup {[article_uuid |-> u, namespace |-> ns, status |-> "synced",
                  vector_id |-> vector_id, total_chunks |-> total_chunks,
                  synced_chunks |-> total_chunks, error_message |-> ""]}

\* mark_article_as_synced: an IntegrityError of create() is caught (returns False)
mark_article_as_synced(trk, u, ns, vector_id, total_chunks) ==
  IF Existing(trk, u, ns) # {}
  THEN LET e == CHOOSE r \in Existing(trk, u, ns) : TRUE IN
       (trk \ {e}) \cup {[e EXCEPT !.status = "synced", !.vector_id = vector_id,
                                   !.total_chunks = total_chunks,
                                   !.synced_chunks = total_chunks,
                                   !.error_message = ""]}
  ELSE IF TrackingCreateRejected(trk, u) THEN trk
  ELSE trk \cup {[article_uuid |-> u, namespace |-> ns, status |-> "synced",
                  vector_id |-> vector_id, total_chunks |-> total_chunks,
                  synced_chunks |-> total_chunks, error_message |-> ""]}

\* mark_article_as_failed: total_chunks and synced_chunks take the column defaults
mark_article_as_failed(trk, u, ns, error_message) ==
  IF Existing(trk, u, ns) # {}
  THEN LET e == CHOOSE r \in Existing(trk, u, ns) : TRUE IN
       (trk \ {e}) \cup {[e EXCEPT !.status = "failed", !.error_message = error_message]}
  ELSE IF TrackingCreateRejected(trk, u) THEN trk
  ELSE trk \cup {[article_uuid |-> u, namespace |-> ns, status |-> "failed",
                  vector_id |-> "", total_chunks |-> 1, synced_chunks |-> 0,
                  error_message |-> error_message]}

\* index of the first failed_vector_embeddings row for (u, ci), 0 if none
FirstEmbIdx(tbl, u, ci) ==
  LET hits == {i \in 1..Len(tbl) : tbl[i].article_uuid = u /\ tbl[i].chunk_index = ci} IN
  IF hits = {} THEN 0 ELSE CHOOSE i \in hits : \A j \in hits : i <= j

\* log_failed_embedding
log_failed_embedding(tbl, u, etype, ci, total) ==
  LET i == FirstEmbIdx(tbl, u, ci) IN
  IF i # 0
  THEN [tbl EXCEPT ![i] = [@ EXCEPT !.attempt_count = @ + 1, !.error_type = etype]]
  ELSE Append(tbl, [article_uuid |-> u, chunk_index |-> ci, total_chunks |-> total,
                    error_type |-> etype, attempt_count |-> 1])

\* clear_failed_embedding
clear_failed_embedding(tbl, u, ci) ==
  LET Keep(r) == ~(r.article_uuid = u /\ r.chunk_index = ci) IN SelectSeq(tbl, Keep)

\* get_failed_embeddings: order_by('-attempt_count', 'created_at')
RECURSIVE OrderRecords(_, _)
OrderRecords(tbl, idxs) ==
  IF idxs = {} THEN <<>>
  ELSE LET b == CHOOSE i \in idxs : \A j \in idxs :
                  \/ tbl[i].attempt_count > tbl[j].attempt_count
                  \/ tbl[i].attempt_count = tbl[j].attempt_count /\ i <= j
       IN <<tbl[b]>> \o OrderRecords(tbl, idxs \ {b})

get_failed_embeddings(tbl) == OrderRecords(tbl, 1..Len(tbl))

\* prepare_vectors_batch lines 362-375: chunk_info of one article; chunks of
\* fewer than 10 characters are skipped
ArticleInfo(u) ==
  LET cs == ArticleChunks[u]
      all == [i \in 1..Len(cs) |->
                [uuid |-> u, chunk_index |-> i - 1, total_chunks |-> Len(cs)]]
      Embeddable(x) == cs[x.chunk_index + 1]
  IN SelectSeq(all, Embeddable)

RECURSIVE ChunkInfo(_)
ChunkInfo(batch) ==
  IF batch = <<>> THEN <<>> ELSE ArticleInfo(Head(batch)) \o ChunkInfo(Tail(batch))

\* prepare_vectors_batch lines 396-409
RECURSIVE LogAll(_, _, _)
LogAll(tbl, info, etype) ==
  IF info = <<>> THEN tbl
  ELSE LogAll(log_failed_embedding(tbl, Head(info).uuid, etype, Head(info).chunk_index,
                                   Head(info).total_chunks),
              Tail(info), etype)

Range(f) == {f[i] : i \in DOMAIN f}

\* prepare_vectors_batch: the vectors (ids {uuid}_chunk_{chunk_idx}), the table
\* of failed embeddings and the chunks handed to embed_texts_batch
prepare_vectors_batch(batch, tbl, embedOk) ==
  LET info == ChunkInfo(batch)
      ids == {[uuid |-> x.uuid, chunk |-> x.chunk_index] : x \in Range(info)}
  IN IF info = <<>> THEN [vectors |-> {}, failed |-> tbl, embedded |-> {}]
     ELSE IF embedOk THEN [vectors |-> ids, failed |-> tbl, embedded |-> ids]
     ELSE [vectors |-> {}, failed |-> LogAll(tbl, info, "EmbeddingGenerationError"),
           embedded |-> ids]

\* what embed_texts_batch can fail on: one of the texts it was handed
RejectedBy(batch, embedOk) ==
  LET p == prepare_vectors_batch(batch, <<>>, embedOk) IN
  IF embedOk \/ p.embedded = {} THEN {{}} ELSE {{c} : c \in p.embedded}

\* upsert_articles_to_pinecone lines 461-466
RECURSIVE MarkBatchSynced(_, _, _)
MarkBatchSynced(trk, batch, ns) ==
  IF batch = <<>> THEN trk
  ELSE MarkBatchSynced(mark_article_as_synced(trk, Head(batch), ns, "", 1), Tail(batch), ns)

\* upsert_articles_to_pinecone lines 472-486: log_failed_embedding is called
\* without chunk_index and total_chunks (0 and 1)
RECURSIVE FailBatch(_, _, _, _)
FailBatch(trk, tbl, batch, ns) ==
  IF batch = <<>> THEN [trk |-> trk, failed |-> tbl]
  ELSE FailBatch(mark_article_as_failed(trk, Head(batch), ns, UPSERT_ERROR),
                 log_failed_embedding(tbl, Head(batch), "VectorUpsertError", 0, 1),
                 Tail(batch), ns)

InNamespace(ids, ns) == {[uuid |-> v.uuid, chunk |-> v.chunk, namespace |-> ns] : v \in ids}

\* process_single_article_to_pinecone
process_single_article_to_pinecone(u, ns, tbl, vecs, embedOk, initOk, upsertOk) ==
  LET p == prepare_vectors_batch(<<u>>, tbl, embedOk)
      ok == p.vectors # {} /\ initOk /\ upsertOk
  IN [result |-> ok, failed |-> p.failed, embedded |-> p.embedded,
      vectors |-> IF ok THEN vecs \cup InNamespace(p.vectors, ns) ELSE vecs,
      upserted |-> IF ok THEN p.vectors ELSE {}]

SyncedIn(trk, ns) == {r.article_uuid : r \in {x \in trk : x.namespace = ns /\ x.status = "synced"}}
FailedIn(trk, ns) == {r.article_uuid : r \in {x \in trk : x.namespace = ns /\ x.status = "failed"}}

Min(a, b) == IF a < b THEN a ELSE b

\* the articles argument: what fetch_articles_from_db(config, limit) returns,
\* the first stored articles in table order
SyncInputs == {[i \in 1..n |-> i] : n \in 0..Len(ArticleChunks)}

\* ------------------------------------------------- two concurrent ingestions
\* Each worker runs process_single_article on its item against the shared
\* store; a step is one statement that reads or writes the store.
InitConc ==
  /\ InitStore
  /\ source_name = "example.com"
  /\ xml_files = << <<[link |-> "a", inline |-> TRUE]>> >>
  /\ wpc = [w \in Workers |-> "start"]
  /\ witem \in [Workers -> Items]
  /\ wknown = [w \in Workers |-> {}]
  /\ wuuid = [w \in Workers |-> 0]
  /\ wres = [w \in Workers |-> "none"]
  /\ SyncIdle
  /\ AuxIdle

\* process_source_directory line 389: existing_urls = get_existing_urls(...)
WSnapshot(w) ==
  /\ wpc[w] = "start"
  /\ wknown' = [wknown EXCEPT ![w] = get_existing_urls(rss_articles)]
  /\ wpc' = [wpc EXCEPT ![w] = "check"]
  /\ UNCHANGED <<ingestVars, witem, wuuid, wres>>
  /\ UNCHANGED <<syncVars, auxVars>>

\* process_single_article lines 221-231
WCheck(w) ==
  /\ wpc[w] = "check"
  /\ IF AlreadyKnown(witem[w].link, wknown[w])
     THEN /\ wres' = [wres EXCEPT ![w] = "skipped"]
          /\ wpc' = [wpc EXCEPT ![w] = "done"]
          /\ UNCHANGED <<wuuid, uuidCtr>>
     ELSE /\ wuuid' = [wuuid EXCEPT ![w] = uuidCtr + 1]
          /\ uuidCtr' = uuidCtr + 1
          /\ wpc' = [wpc EXCEPT ![w] = IF witem[w].inline THEN "create" ELSE "fetch"]
          /\ UNCHANGED wres
  /\ UNCHANGED <<rss_articles, article_metadata, failed_articles, source_name, xml_files, pc,
                 existing_urls, fileIdx, itemIdx, started, stats, total_stats, last, nRuns,
                 nWrites, witem, wknown>>
  /\ UNCHANGED <<syncVars, auxVars>>

\* process_single_article lines 255-268: get_article_content
WFetch(w) ==
  /\ wpc[w] = "fetch"
  /\ \E fetchOut \in {"text", None} :
       IF fetchOut = None
       THEN /\ failed_articles' = log_failed_article(failed_articles, wuuid[w], witem[w].link,
                                                     "content_extraction_failed",
                                                     "error with " \o witem[w].link)
            /\ wres' = [wres EXCEPT ![w] = "fetch_failed"]
            /\ wpc' = [wpc EXCEPT ![w] = "done"]
       ELSE /\ wpc' = [wpc EXCEPT ![w] = "create"]
            /\ UNCHANGED <<failed_articles, wres>>
  /\ UNCHANGED <<rss_articles, article_metadata, uuidCtr, source_name, xml_files, pc,
                 existing_urls, fileIdx, itemIdx, started, stats, total_stats, last, nRuns,
                 nWrites, witem, wknown, wuuid>>
  /\ UNCHANGED <<syncVars, auxVars>>

\* write_article_to_db lines 149-159: the INSERT into rss_feed_articles
WCreate(w) ==
  /\ wpc[w] = "create"
  /\ IF CreateRejected(rss_articles, witem[w].link, wuuid[w])
     THEN /\ wres' = [wres EXCEPT ![w] = "duplicate"]
          /\ wpc' = [wpc EXCEPT ![w] = "done"]
          /\ UNCHANGED rss_articles
     ELSE /\ rss_articles' = rss_articles \cup {[url |-> witem[w].link, uuid |-> wuuid[w]]}
          /\ wpc' = [wpc EXCEPT ![w] = "meta"]
          /\ UNCHANGED wres
  /\ UNCHANGED <<article_metadata, failed_articles, uuidCtr, source_name, xml_files, pc,
                 existing_urls, fileIdx, itemIdx, started, stats, total_stats, last, nRuns,
                 nWrites, witem, wknown, wuuid>>
  /\ UNCHANGED <<syncVars, auxVars>>

\* write_article_to_db lines 160-183: the INSERT into article_metadata, and
\* process_single_article lines 281-284
WMeta(w) ==
  /\ wpc[w] = "meta"
  /\ \E metaFault \in BOOLEAN :
       IF metaFault
       THEN /\ wres' = [wres EXCEPT ![w] = "meta_failed"]
            /\ UNCHANGED <<article_metadata, wknown>>
       ELSE /\ article_metadata' = article_metadata \cup
                 {[uuid |-> wuuid[w], url |-> witem[w].link,
                   content |-> IF witem[w].inline THEN "xml" ELSE "web_fetched"]}
            /\ wknown' = [wknown EXCEPT ![w] = @ \cup {witem[w].link}]
            /\ wres' = [wres EXCEPT ![w] = "inserted"]
  /\ wpc' = [wpc EXCEPT ![w] = "done"]
  /\ UNCHANGED <<rss_articles, failed_articles, uuidCtr, source_name, xml_files, pc,
                 existing_urls, fileIdx, itemIdx, started, stats, total_stats, last, nRuns,
                 nWrites, witem, wuuid>>
  /\ UNCHANGED <<syncVars, auxVars>>

NextConc == \E w \in Workers : WSnapshot(w) \/ WCheck(w) \/ WFetch(w) \/ WCreate(w) \/ WMeta(w)

SpecConc == InitConc /\ [][NextConc]_vars

\* upsert_vectors_batch: False without vectors or when index.upsert raises
upsert_vectors_batch(vecs, upsertOk) == vecs # {} /\ upsertOk

\* upsert_articles_to_pinecone up to its batch loop (lines 427-453); initOk is
\* whether get_pinecone_index returned an index
SyncStart ==
  /\ sync_pc = "idle"
  /\ nOps < MaxOps
  /\ nOps' = nOps + 1
  /\ \E input \in SyncInputs, ns \in Namespaces, bs \in BatchSizes, initOk \in BOOLEAN :
       LET already == {u \in Range(input) : is_article_synced_to_vector_db(tracking, u, ns)}
           NotSynced(u) == u \notin already
           todo == SelectSeq(input, NotSynced)
           st0 == [ZeroSyncStats EXCEPT !.total = Len(input)]
           checked == input # <<>> /\ initOk
       IN /\ sync_ns' = ns
          /\ batch_size' = bs
          /\ sync_stats' = IF input = <<>> THEN st0
                           ELSE IF ~initOk THEN [st0 EXCEPT !.failed = Len(input)]
                           ELSE [st0 EXCEPT !.already_synced = Cardinality(already)]
          /\ to_process' = IF checked THEN todo ELSE <<>>
          /\ sync_pc' = IF checked /\ todo # <<>> THEN "batches" ELSE "idle"
          /\ slast' = [op |-> "sync_start", ns |-> ns, initOk |-> initOk,
                       input |-> Range(input),
                       \* lines 433-438: what get_pinecone_index raises is caught,
                       \* the call returns its stats
                       raised |-> FALSE, returned |-> ~(checked /\ todo # <<>>)]
  /\ bi' = 1
  /\ UNCHANGED <<tracking, failed_embeddings, vectors, failed_records, ri>>
  /\ UNCHANGED <<ingestVars, concVars, auxVars>>

\* one iteration of the batch loop of upsert_articles_to_pinecone (lines 454-489);
\* embedOk: embed_texts_batch returned, upsertOk: index.upsert returned;
\* rejected: the chunk whose text made the provider fail the embedding call
SyncBatch ==
  /\ sync_pc = "batches"
  /\ \E embedOk \in BOOLEAN, upsertOk \in BOOLEAN :
     \E rejected \in RejectedBy(SubSeq(to_process, bi, Min(bi + batch_size - 1, Len(to_process))),
                               embedOk) :
       LET hi == Min(bi + batch_size - 1, Len(to_process))
           batch == SubSeq(to_process, bi, hi)
           p == prepare_vectors_batch(batch, failed_embeddings, embedOk)
           success == upsert_vectors_batch(p.vectors, upsertOk)
           outcome == IF p.vectors = {} THEN "skipped"
                      ELSE IF success THEN "upserted" ELSE "upsert_failed"
           fb == FailBatch(tracking, p.failed, batch, sync_ns)
       IN /\ tracking' = CASE outcome = "upserted" -> MarkBatchSynced(tracking, batch, sync_ns)
                           [] outcome = "upsert_failed" -> fb.trk
                           [] OTHER -> tracking
          /\ failed_embeddings' = IF outcome = "upsert_failed" THEN fb.failed ELSE p.failed
          /\ vectors' = IF outcome = "upserted"
                        THEN vectors \cup InNamespace(p.vectors, sync_ns) ELSE vectors
          /\ sync_stats' =
               CASE outcome = "upserted" ->
                      [sync_stats EXCEPT !.upserted = @ + Cardinality(p.vectors)]
                 [] outcome = "upsert_failed" -> [sync_stats EXCEPT !.failed = @ + Len(batch)]
                 [] OTHER -> [sync_stats EXCEPT !.skipped = @ + Len(batch)]
          /\ slast' = [op |-> "batch", ns |-> sync_ns, batch |-> Range(batch),
                       outcome |-> outcome,
                       embedded |-> {v.uuid : v \in p.embedded},
                       upserted |-> IF outcome = "upserted" THEN p.vectors ELSE {},
                       syncedBefore |-> SyncedIn(tracking, sync_ns),
                       failedBefore |-> FailedIn(tracking, sync_ns),
                       chunks |-> p.embedded, rejected |-> rejected,
                       rowsBefore |-> IF rejected = {} THEN {} ELSE Range(failed_embeddings)]
          /\ IF hi >= Len(to_process)
             THEN /\ sync_pc' = "idle"     \* return stats
                  /\ bi' = 1
                  /\ to_process' = <<>>
             ELSE /\ sync_pc' = "batches"
                  /\ bi' = hi + 1
                  /\ UNCHANGED to_process
  /\ UNCHANGED <<sync_ns, batch_size, failed_records, ri, nOps>>
  /\ UNCHANGED <<ingestVars, concVars, auxVars>>

\* retry_failed_embeddings up to its loop (lines 36-59)
RetryStart ==
  /\ sync_pc = "idle"
  /\ nOps < MaxOps
  /\ nOps' = nOps + 1
  /\ \E ns \in Namespaces :
       LET recs == get_failed_embeddings(failed_embeddings) IN
       /\ failed_records' = recs
       /\ sync_ns' = ns
       /\ sync_pc' = IF recs = <<>> THEN "idle" ELSE "retry"
       /\ slast' = [op |-> "retry_start", ns |-> ns, records |-> Len(recs)]
  /\ ri' = 1
  /\ UNCHANGED <<tracking, failed_embeddings, vectors, batch_size, to_process, bi,
                 sync_stats>>
  /\ UNCHANGED <<ingestVars, concVars, auxVars>>

\* one iteration of the loop of retry_failed_embeddings (lines 60-92)
RetryRecord ==
  /\ sync_pc = "retry"
  /\ \E embedOk \in BOOLEAN, initOk \in BOOLEAN, upsertOk \in BOOLEAN :
       LET rec == failed_records[ri]
           r == process_single_article_to_pinecone(rec.article_uuid, sync_ns, failed_embeddings,
                                                   vectors, embedOk, initOk, upsertOk)
       IN /\ failed_embeddings' =
               IF r.result
               THEN clear_failed_embedding(r.failed, rec.article_uuid, rec.chunk_index)
               ELSE r.failed
          /\ vectors' = r.vectors
          /\ slast' = [op |-> "retry_record", ns |-> sync_ns, uuid |-> rec.article_uuid,
                       chunk_index |-> rec.chunk_index, result |-> r.result,
                       embedded |-> {v.uuid : v \in r.embedded},
                       embeddedChunks |-> r.embedded,
                       upserted |-> r.upserted,
                       syncedBefore |-> SyncedIn(tracking, sync_ns),
                       rowsBefore |-> Range(failed_embeddings)]
  /\ IF ri >= Len(failed_records)
     THEN /\ sync_pc' = "idle"             \* return
          /\ ri' = 1
          /\ failed_records' = <<>>
     ELSE /\ sync_pc' = "retry"
          /\ ri' = ri + 1
          /\ UNCHANGED failed_records
  /\ UNCHANGED <<tracking, sync_ns, batch_size, to_process, bi, sync_stats, nOps>>
  /\ UNCHANGED <<ingestVars, concVars, auxVars>>

NextSync == SyncStart \/ SyncBatch \/ RetryStart \/ RetryRecord

SpecSync == InitWrite /\ [][NextSync]_vars

\* ================================================================= chunking
\* most words of an article's text
MaxWords == 5
\* values of pinecone.max_words_per_chunk
Budgets == {1, 2, 3}
\* a text is the sequence of its words (text.split()), each word given by its
\* number of characters: a one-letter word, a ten-letter word, or an unbroken
\* run of 4000 characters
WordLens == {1, 10, 4000}
Texts == UNION {[1..n -> WordLens] : n \in 0..MaxWords}
ChunkUuids == {"u1", "u2"}
\* prepare_vectors_batch skips a chunk of fewer characters (skip_short)
MinChunkChars == 10

\* (mutant) a split that drops the last, partial chunk
chunk_text_by_words_DropPartial(words, max_words_per_chunk) ==
  [k \in 1..(Len(words) \div max_words_per_chunk) |->
     SubSeq(words, (k - 1) * max_words_per_chunk + 1, k * max_words_per_chunk)]

\* chunk_text_by_words: one chunk for each i of range(0, len(words), budget),
\* holding words[i:i+budget]
chunk_text_by_words(words, max_words_per_chunk) ==
  LET starts == {i \in 0..(Len(words) - 1) : i % max_words_per_chunk = 0} IN
  [k \in 1..Cardinality(starts) |->
     SubSeq(words, (k - 1) * max_words_per_chunk + 1,
            Min(k * max_words_per_chunk, Len(words)))]

\* the slice [:8000] taken of every chunk text
MaxChunkTextChars == 8000

\* text[:room] of the words joined by blanks: the words that fit, the last
\* of them cut where the room ends
RECURSIVE CutText(_, _)
CutText(words, room) ==
  IF words = <<>> \/ room <= 0 THEN <<>>
  ELSE IF words[1] >= room THEN <<room>>
  ELSE <<words[1]>> \o CutText(Tail(words), room - words[1] - 1)

\* prepare_article_for_embedding: (chunk text, metadata) pairs
prepare_article_for_embedding(article, max_words_per_chunk) ==
  IF Len(article.words) <= max_words_per_chunk
  THEN << [text |-> CutText(article.words, MaxChunkTextChars), uuid |-> article.uuid,
           chunk_index |-> 0, total_chunks |-> 1] >>
  ELSE LET chunks == chunk_text_by_words(article.words, max_words_per_chunk) IN
       [idx \in 1..Len(chunks) |->
          [text |-> CutText(chunks[idx], MaxChunkTextChars), uuid |-> article.uuid,
           chunk_index |-> idx - 1, total_chunks |-> Len(chunks)]]

\* len(chunk_text.strip()): the words and one blank between two words
RECURSIVE StrippedLen(_)
StrippedLen(words) ==
  IF words = <<>> THEN 0
  ELSE IF Len(words) = 1 THEN words[1]
  ELSE words[1] + 1 + StrippedLen(Tail(words))

\* f"{article['uuid']}_chunk_{chunk_idx}"
VectorId(uuid, chunk_idx) == uuid \o "_chunk_" \o ToString(chunk_idx)

\* (mutant) ids numbered by position among the chunks that were embedded
PrepareVectorsOf_Renumber(article, max_words_per_chunk, embedOk) ==
  LET chunk_data == prepare_article_for_embedding(article, max_words_per_chunk)
      Kept(i) == StrippedLen(chunk_data[i].text) >= MinChunkChars
      chunk_info == SelectSeq([i \in 1..Len(chunk_data) |-> i], Kept)
  IN IF chunk_info = <<>> \/ ~embedOk THEN <<>>
     ELSE [j \in 1..Len(chunk_info) |->
             [id |-> VectorId(article.uuid, j - 1),
              metadata |-> [uuid |-> chunk_data[chunk_info[j]].uuid,
                            chunk_index |-> chunk_data[chunk_info[j]].chunk_index,
                            total_chunks |-> chunk_data[chunk_info[j]].total_chunks]]]

\* prepare_vectors_batch([article]): chunk_idx is the position in chunk_data;
\* short chunks are left out; no vector when embed_texts_batch raises
PrepareVectorsOf(article, max_words_per_chunk, embedOk) ==
  LET chunk_data == prepare_article_for_embedding(article, max_words_per_chunk)
      Kept(i) == StrippedLen(chunk_data[i].text) >= MinChunkChars
      chunk_info == SelectSeq([i \in 1..Len(chunk_data) |-> i], Kept)
  IN IF chunk_info = <<>> \/ ~embedOk THEN <<>>
     ELSE [j \in 1..Len(chunk_info) |->
             [id |-> VectorId(article.uuid, chunk_info[j] - 1),
              metadata |-> [uuid |-> chunk_data[chunk_info[j]].uuid,
                            chunk_index |-> chunk_data[chunk_info[j]].chunk_index,
                            total_chunks |-> chunk_data[chunk_info[j]].total_chunks]]]

InitChunk ==
  /\ InitStore /\ WorkersOff /\ SyncIdle /\ ExtractIdle /\ FeedIdle /\ DbIdle /\ LedgerIdle /\ ResolveIdle
  /\ source_name = "example.com"
  /\ xml_files = << <<[link |-> "a", inline |-> TRUE]>> >>
  /\ ch_pc = "input"
  /\ ch_article \in [uuid : ChunkUuids, words : Texts]
  /\ ch_budget \in Budgets
  /\ ch_embedOk = TRUE
  /\ ch_chunks = <<>>
  /\ ch_vectors = <<>>

\* a call of prepare_article_for_embedding
ChunkArticle ==
  /\ ch_pc = "input"
  /\ ch_pc' = "chunked"
  /\ ch_chunks' = prepare_article_for_embedding(ch_article, ch_budget)
  /\ UNCHANGED <<ch_article, ch_budget, ch_embedOk, ch_vectors>>
  /\ UNCHANGED <<ingestVars, concVars, syncVars, extractVars, feedVars, dbVars, lgVars, rsVars>>

\* a call of prepare_vectors_batch for the one article
VectorsOfArticle ==
  /\ ch_pc = "input"
  /\ ch_pc' = "prepared"
  /\ \E embedOk \in BOOLEAN :
       /\ ch_embedOk' = embedOk
       /\ ch_vectors' = PrepareVectorsOf(ch_article, ch_budget, embedOk)
  /\ ch_chunks' = prepare_article_for_embedding(ch_article, ch_budget)
  /\ UNCHANGED <<ch_article, ch_budget>>
  /\ UNCHANGED <<ingestVars, concVars, syncVars, extractVars, feedVars, dbVars, lgVars, rsVars>>

NextChunk == ChunkArticle \/ VectorsOfArticle

SpecChunk == InitChunk /\ [][NextChunk]_vars

\* =============================================================== extraction
\* methods.items(): the strategies in the order of the dict literal
StrategyOrder == <<"newspaper3k", "trafilatura", "readability", "playwright", "jina">>
Strategies == Range(StrategyOrder)
\* what a strategy's download and parse do: raise, give text of at most 100
\* characters (or none), or give longer text
Outcomes == {"raise", "short", "ok"}
\* the length a strategy's text must exceed
MinTextChars == 100
\* len(text.strip()) of the text a strategy's download and parse give: the
\* longest short text, the shortest longer one
ExtractedLen(outcome) == IF outcome = "ok" THEN 101 ELSE 100
\* the text a strategy extracts
TextOf(name) == "text of " \o name

Hosts == {"www.example.com", "news.example.com", "other.org"}
\* domain[4:] for a netloc that starts with www.
StripWww(host) == IF host = "www.example.com" THEN "example.com" ELSE host
\* a in b, for the names at hand
IsSubstring(a, b) ==
  a = b \/ <<a, b>> \in {<<"example.com", "www.example.com">>,
                         <<"example.com", "news.example.com">>}

ExtractConfigs == {
  [extractor_mapping |-> <<>>, default_extractor_method |-> "all"],
  [extractor_mapping |-> << [method |-> "jina", sites |-> <<"example.com">>] >>,
   default_extractor_method |-> "all"],
  [extractor_mapping |-> << [method |-> "Trafilatura", sites |-> <<"news.example.com">>],
                            [method |-> "playwright", sites |-> <<"example.com">>] >>,
   default_extractor_method |-> "readability"] }
MethodArgs == {None, "all", "newspaper3k", "Jina", "scrapy"}

\* method.lower()
Lower(m) == CASE m = "Jina" -> "jina" [] m = "Trafilatura" -> "trafilatura" [] OTHER -> m

\* get_extraction_method_for_site: the first method of extractor_mapping with a
\* site that contains the domain or is contained in it, else the default
get_extraction_method_for_site(cfg, host) ==
  LET domain == StripWww(host)
      Hit(e) == \E i \in 1..Len(e.sites) :
                  IsSubstring(e.sites[i], domain) \/ IsSubstring(domain, e.sites[i])
      hits == SelectSeq(cfg.extractor_mapping, Hit)
  IN IF hits # <<>> THEN Head(hits).method ELSE cfg.default_extractor_method

\* (mutant) a strategy without its try/except
Strategy_Propagate(name, outcome) ==
  CASE outcome = "ok" -> TextOf(name)
    [] outcome = "raise" -> RAISED
    [] OTHER -> None

\* (mutant) a strategy that accepts a text of 100 characters
Strategy_AtLeast(name, outcome) ==
  IF outcome # "raise" /\ ExtractedLen(outcome) >= MinTextChars THEN TextOf(name) ELSE None

\* extract_with_*: the text when it has more than 100 characters; a short text
\* and an exception both give None
Strategy(name, outcome) ==
  IF outcome # "raise" /\ ExtractedLen(outcome) > MinTextChars THEN TextOf(name) ELSE None

InitExtract ==
  /\ InitStore /\ WorkersOff /\ SyncIdle /\ ChunkIdle /\ FeedIdle /\ DbIdle /\ LedgerIdle /\ ResolveIdle
  /\ source_name = "example.com"
  /\ xml_files = << <<[link |-> "a", inline |-> TRUE]>> >>
  /\ ex_pc = "input"
  /\ ex_host \in Hosts
  /\ ex_config \in ExtractConfigs
  /\ ex_arg \in MethodArgs
  /\ ex_outcome \in [Strategies -> Outcomes]
  /\ ex_method = None
  /\ ex_idx = 1
  /\ ex_calls = <<>>
  /\ ex_result = None
  /\ ex_raised = FALSE

\* (mutant) a specific method that falls back to the chain when it gives nothing
ExtractStart_Cascade ==
  /\ ex_pc = "input"
  /\ LET method == IF ex_arg = None
                   THEN get_extraction_method_for_site(ex_config, ex_host)
                   ELSE ex_arg
         m == Lower(method)
         r == Strategy(m, ex_outcome[m])
     IN /\ ex_method' = method
        /\ IF m = "all"
           THEN /\ ex_pc' = "loop"
                /\ UNCHANGED <<ex_calls, ex_result, ex_raised>>
           ELSE IF m \notin Strategies
           THEN /\ ex_pc' = "done"
                /\ UNCHANGED <<ex_calls, ex_result, ex_raised>>
           ELSE /\ ex_pc' = IF r = None THEN "loop" ELSE "done"
                /\ ex_calls' = <<m>>
                /\ ex_raised' = (r = RAISED)
                /\ ex_result' = IF r = RAISED THEN None ELSE r
  /\ UNCHANGED <<ex_host, ex_config, ex_arg, ex_outcome, ex_idx>>
  /\ UNCHANGED <<ingestVars, concVars, syncVars, chunkVars, feedVars, dbVars, lgVars, rsVars>>

\* get_article_content up to its loop (lines 164-188): a method other than
\* "all" is tried alone and its value returned
ExtractStart ==
  /\ ex_pc = "input"
  /\ LET method == IF ex_arg = None
                   THEN get_extraction_method_for_site(ex_config, ex_host)
                   ELSE ex_arg
         m == Lower(method)
         r == Strategy(m, ex_outcome[m])
     IN /\ ex_method' = method
        /\ IF m = "all"
           THEN /\ ex_pc' = "loop"
                /\ UNCHANGED <<ex_calls, ex_result, ex_raised>>
           ELSE IF m \notin Strategies
           THEN /\ ex_pc' = "done"
                /\ UNCHANGED <<ex_calls, ex_result, ex_raised>>
           ELSE /\ ex_pc' = "done"
                /\ ex_calls' = <<m>>
                /\ ex_raised' = (r = RAISED)
                /\ ex_result' = IF r = RAISED THEN None ELSE r
  /\ UNCHANGED <<ex_host, ex_config, ex_arg, ex_outcome, ex_idx>>
  /\ UNCHANGED <<ingestVars, concVars, syncVars, chunkVars, feedVars, dbVars, lgVars, rsVars>>

\* (mutant) a loop that goes on after a strategy gave text
ExtractTry_NoStop ==
  /\ ex_pc = "loop"
  /\ LET name == StrategyOrder[ex_idx]
         r == Strategy(name, ex_outcome[name])
     IN /\ ex_calls' = Append(ex_calls, name)
        /\ ex_raised' = (r = RAISED)
        /\ ex_result' = IF r = RAISED THEN None ELSE r
        /\ IF ex_idx = Len(StrategyOrder)
           THEN ex_pc' = "done" /\ UNCHANGED ex_idx
           ELSE ex_pc' = "loop" /\ ex_idx' = ex_idx + 1
  /\ UNCHANGED <<ex_host, ex_config, ex_arg, ex_outcome, ex_method>>
  /\ UNCHANGED <<ingestVars, concVars, syncVars, chunkVars, feedVars, dbVars, lgVars, rsVars>>

\* one iteration of the loop over methods.items() (lines 189-197), and the
\* return after the last one (lines 199-200)
ExtractTry ==
  /\ ex_pc = "loop"
  /\ LET name == StrategyOrder[ex_idx]
         r == Strategy(name, ex_outcome[name])
     IN /\ ex_calls' = Append(ex_calls, name)
        /\ ex_raised' = (r = RAISED)
        /\ ex_result' = IF r = RAISED THEN None ELSE r
        /\ IF r # None \/ ex_idx = Len(StrategyOrder)
           THEN ex_pc' = "done" /\ UNCHANGED ex_idx
           ELSE ex_pc' = "loop" /\ ex_idx' = ex_idx + 1
  /\ UNCHANGED <<ex_host, ex_config, ex_arg, ex_outcome, ex_method>>
  /\ UNCHANGED <<ingestVars, concVars, syncVars, chunkVars, feedVars, dbVars, lgVars, rsVars>>

NextExtract == ExtractStart \/ ExtractTry

SpecExtract == InitExtract /\ [][NextExtract]_vars

\* ================================================================ feed runs
\* download runs per behaviour
MaxDownloads == 2
\* the feed documents a url can serve
Docs == {"d1", "d2"}

\* calculate_hash: the sha256 hex digest of the document
calculate_hash(content) == "sha256 of " \o content

\* (mutant) a change detector that does not compare with the stored hash
process_rss_feed_NoCompare(url, hashes, fetched, rssOk, pathOk, writeOk) ==
  IF fetched = None \/ ~rssOk
  THEN [ret |-> FALSE, hashes |-> hashes, wrote |-> FALSE, raised |-> FALSE]
  ELSE IF ~pathOk
  THEN [ret |-> FALSE, hashes |-> hashes, wrote |-> FALSE, raised |-> TRUE]
  ELSE IF ~writeOk
  THEN [ret |-> FALSE, hashes |-> hashes, wrote |-> FALSE, raised |-> FALSE]
  ELSE [ret |-> TRUE, hashes |-> [hashes EXCEPT ![url] = calculate_hash(fetched)],
        wrote |-> TRUE, raised |-> FALSE]

\* (mutant) a change detector that stores the hash before it writes the file
process_rss_feed_HashFirst(url, hashes, fetched, rssOk, pathOk, writeOk) ==
  IF fetched = None \/ ~rssOk
  THEN [ret |-> FALSE, hashes |-> hashes, wrote |-> FALSE, raised |-> FALSE]
  ELSE IF hashes[url] = calculate_hash(fetched)
  THEN [ret |-> FALSE, hashes |-> hashes, wrote |-> FALSE, raised |-> FALSE]
  ELSE IF ~pathOk
  THEN [ret |-> FALSE, hashes |-> hashes, wrote |-> FALSE, raised |-> TRUE]
  ELSE [ret |-> writeOk, hashes |-> [hashes EXCEPT ![url] = calculate_hash(fetched)],
        wrote |-> writeOk, raised |-> FALSE]

\* process_rss_feed (sites_rss and gnews_rss alike). fetched: what fetch_rss
\* returned (None when every fetch failed); rssOk: the content holds an rss
\* document; pathOk: get_output_path made the directory (it raises otherwise);
\* writeOk: the file was written
process_rss_feed(url, hashes, fetched, rssOk, pathOk, writeOk) ==
  IF fetched = None \/ ~rssOk
  THEN [ret |-> FALSE, hashes |-> hashes, wrote |-> FALSE, raised |-> FALSE]
  ELSE IF hashes[url] = calculate_hash(fetched)
  THEN [ret |-> FALSE, hashes |-> hashes, wrote |-> FALSE, raised |-> FALSE]
  ELSE IF ~pathOk
  THEN [ret |-> FALSE, hashes |-> hashes, wrote |-> FALSE, raised |-> TRUE]
  ELSE IF ~writeOk
  THEN [ret |-> FALSE, hashes |-> hashes, wrote |-> FALSE, raised |-> FALSE]
  ELSE [ret |-> TRUE, hashes |-> [hashes EXCEPT ![url] = calculate_hash(fetched)],
        wrote |-> TRUE, raised |-> FALSE]

\* save_hashes: the file keeps its content when the write fails
save_hashes(disk, hashes, saveOk) == IF saveOk THEN hashes ELSE disk

InitFeed ==
  /\ InitStore /\ WorkersOff /\ SyncIdle /\ ChunkIdle /\ ExtractIdle /\ DbIdle /\ LedgerIdle /\ ResolveIdle
  /\ source_name = "example.com"
  /\ xml_files = << <<[link |-> "a", inline |-> TRUE]>> >>
  /\ fd_pc = "idle"
  /\ fd_disk = NoHashes
  /\ fd_hashes = NoHashes
  /\ fd_files = {}
  /\ fd_i = 1
  /\ fd_interrupted = FALSE
  /\ fd_unfinished = None
  /\ fd_last = NoLast
  /\ fd_runs = 0
  /\ fd_handled = {}

\* a new process: download_*_feeds up to its loop (load_hashes)
DlStart ==
  /\ fd_pc \in {"idle", "ended"}
  /\ fd_runs < MaxDownloads
  /\ fd_runs' = fd_runs + 1
  /\ fd_pc' = "loop"
  /\ fd_hashes' = fd_disk
  /\ fd_i' = 1
  /\ fd_interrupted' = FALSE
  /\ fd_unfinished' = None
  /\ fd_last' = [op |-> "start"]
  /\ UNCHANGED <<fd_disk, fd_files>>
  /\ UNCHANGED <<ingestVars, concVars, syncVars, chunkVars, extractVars, dbVars, fd_handled, lgVars, rsVars>>

\* the body of the loop for feed fd_i: the call of process_rss_feed, an
\* exception of which the loop logs
FeedStep(fetched, rssOk, pathOk, writeOk) ==
  LET url == FeedUrls[fd_i]
      r == process_rss_feed(url, fd_hashes, fetched, rssOk, pathOk, writeOk)
  IN /\ fd_hashes' = r.hashes
     /\ fd_files' = IF r.wrote THEN fd_files \cup {[url |-> url, doc |-> fetched]}
                    ELSE fd_files
     /\ fd_i' = fd_i + 1
     /\ fd_last' = [op |-> "feed", url |-> url, ret |-> r.ret, raised |-> r.raised,
                    wrote |-> r.wrote,
                    doc |-> IF rssOk THEN fetched ELSE None,
                    writable |-> pathOk /\ writeOk,
                    hashesBefore |-> fd_hashes, filesBefore |-> fd_files]

\* one iteration of the loop, no signal
DlFeed ==
  /\ fd_pc = "loop"
  /\ ~fd_interrupted
  /\ fd_i <= Len(FeedUrls)
  /\ \E fetched \in Docs \cup {None}, rssOk \in BOOLEAN, pathOk \in BOOLEAN,
        writeOk \in BOOLEAN :
       FeedStep(fetched, rssOk, pathOk, writeOk)
  /\ UNCHANGED <<fd_pc, fd_disk, fd_interrupted, fd_unfinished, fd_runs>>
  /\ UNCHANGED <<ingestVars, concVars, syncVars, chunkVars, extractVars, dbVars, fd_handled, lgVars, rsVars>>

\* SIGINT while feed fd_i is worked on: _handle_sigint sets the flag and calls
\* sys.exit(0); SystemExit unwinds the call in progress (except Exception does
\* not catch it) and ends the process, unless a library frame of the fetch in
\* progress catches it, in which case the iteration goes on
DlSigint ==
  /\ fd_pc = "loop"
  /\ ~fd_interrupted
  /\ fd_i <= Len(FeedUrls)
  /\ fd_interrupted' = TRUE
  /\ \E swallowed \in BOOLEAN :
       IF swallowed
       THEN /\ \E fetched \in Docs \cup {None}, rssOk \in BOOLEAN, pathOk \in BOOLEAN,
                  writeOk \in BOOLEAN :
                 FeedStep(fetched, rssOk, pathOk, writeOk)
            /\ UNCHANGED <<fd_pc, fd_unfinished>>
       ELSE /\ fd_pc' = "ended"
            /\ fd_unfinished' = FeedUrls[fd_i]
            /\ fd_last' = [op |-> "exit"]
            /\ UNCHANGED <<fd_hashes, fd_files, fd_i>>
  /\ UNCHANGED <<fd_disk, fd_runs>>
  /\ UNCHANGED <<ingestVars, concVars, syncVars, chunkVars, extractVars, dbVars, fd_handled, lgVars, rsVars>>

\* the loop finds shutdown.is_interrupted(): save_hashes and return
DlInterrupted ==
  /\ fd_pc = "loop"
  /\ fd_interrupted
  /\ fd_i <= Len(FeedUrls)
  /\ \E saveOk \in BOOLEAN : fd_disk' = save_hashes(fd_disk, fd_hashes, saveOk)
  /\ fd_pc' = "ended"
  /\ fd_last' = [op |-> "interrupted_return"]
  /\ UNCHANGED <<fd_hashes, fd_files, fd_i, fd_interrupted, fd_unfinished, fd_runs>>
  /\ UNCHANGED <<ingestVars, concVars, syncVars, chunkVars, extractVars, dbVars, fd_handled, lgVars, rsVars>>

\* after the loop: save_hashes and return
DlFinish ==
  /\ fd_pc = "loop"
  /\ fd_i > Len(FeedUrls)
  /\ \E saveOk \in BOOLEAN : fd_disk' = save_hashes(fd_disk, fd_hashes, saveOk)
  /\ fd_pc' = "ended"
  /\ fd_last' = [op |-> "return"]
  /\ UNCHANGED <<fd_hashes, fd_files, fd_i, fd_interrupted, fd_unfinished, fd_runs>>
  /\ UNCHANGED <<ingestVars, concVars, syncVars, chunkVars, extractVars, dbVars, fd_handled, lgVars, rsVars>>

\* process_articles_to_db after a download run (mode full, or a later run in
\* mode process): it parses and ingests the written documents, the items of
\* some of them all successfully; it reads and writes no hash
DlIngest ==
  /\ fd_pc = "ended"
  /\ fd_files \ fd_handled # {}
  /\ \E done \in SUBSET (fd_files \ fd_handled) : fd_handled' = fd_handled \cup done
  /\ fd_last' = [op |-> "ingest"]
  /\ UNCHANGED <<fd_pc, fd_disk, fd_hashes, fd_files, fd_i, fd_interrupted, fd_unfinished,
                 fd_runs>>
  /\ UNCHANGED <<ingestVars, concVars, syncVars, chunkVars, extractVars, dbVars, lgVars, rsVars>>

NextFeed == DlStart \/ DlFeed \/ DlSigint \/ DlInterrupted \/ DlFinish \/ DlIngest

SpecFeed == InitFeed /\ [][NextFeed]_vars

\* ============================================================ ingestion stage
\* the source directories a call can find
MaxSources == 2
SourceDirs == <<"s1", "s2", "s3", "s4">>
\* the most one source counts under each of processed, skipped, failed
MaxCount == 1
SourceCounts == [processed : 0..MaxCount, skipped : 0..MaxCount, failed : 0..MaxCount]

InitDb ==
  /\ InitStore /\ WorkersOff /\ SyncIdle /\ ChunkIdle /\ ExtractIdle /\ FeedIdle /\ LedgerIdle /\ ResolveIdle
  /\ source_name = "example.com"
  /\ xml_files = << <<[link |-> "a", inline |-> TRUE]>> >>
  /\ db_pc = "start"
  /\ db_dirs \in {SubSeq(SourceDirs, 1, n) : n \in 0..MaxSources}
  /\ db_i = 1
  /\ db_stats = ZeroSummary
  /\ db_counts = <<>>
  /\ db_interrupted = FALSE
  /\ db_ret = ZeroSummary

\* process_articles_to_db up to its loop
DbStart ==
  /\ db_pc = "start"
  /\ \E createOk \in BOOLEAN, pathOk \in BOOLEAN :
       IF createOk /\ pathOk
       THEN /\ db_pc' = "loop"
            /\ db_stats' = ZeroSummary
            /\ UNCHANGED db_ret
       ELSE /\ db_pc' = "returned"
            /\ db_ret' = ZeroSummary
            /\ UNCHANGED db_stats
  /\ UNCHANGED <<db_dirs, db_i, db_counts, db_interrupted>>
  /\ UNCHANGED <<ingestVars, concVars, syncVars, chunkVars, extractVars, feedVars, lgVars, rsVars>>

\* one iteration of the loop: process_source_directory runs over the source
\* and ends with the total_stats `counts`, which it logs and does not return
\* (an exception it raises is logged by the loop); stats is not touched
DbSource ==
  /\ db_pc = "loop"
  /\ ~db_interrupted
  /\ db_i <= Len(db_dirs)
  /\ \E counts \in SourceCounts : db_counts' = Append(db_counts, counts)
  /\ db_i' = db_i + 1
  /\ UNCHANGED <<db_pc, db_dirs, db_stats, db_interrupted, db_ret>>
  /\ UNCHANGED <<ingestVars, concVars, syncVars, chunkVars, extractVars, feedVars, lgVars, rsVars>>

\* SIGINT while source db_i is processed: _handle_sigint sets the flag and
\* calls sys.exit(0); SystemExit ends the process (except Exception does not
\* catch it) unless a library frame of the iteration catches it, in which
\* case the iteration goes on
DbSigint ==
  /\ db_pc = "loop"
  /\ ~db_interrupted
  /\ db_i <= Len(db_dirs)
  /\ db_interrupted' = TRUE
  /\ \E swallowed \in BOOLEAN :
       IF swallowed
       THEN /\ \E counts \in SourceCounts : db_counts' = Append(db_counts, counts)
            /\ db_i' = db_i + 1
            /\ UNCHANGED db_pc
       ELSE /\ db_pc' = "exited"
            /\ UNCHANGED <<db_i, db_counts>>
  /\ UNCHANGED <<db_dirs, db_stats, db_ret>>
  /\ UNCHANGED <<ingestVars, concVars, syncVars, chunkVars, extractVars, feedVars, lgVars, rsVars>>

\* return stats: at the interrupt check (line 143) or after the loop (154)
DbReturn ==
  /\ db_pc = "loop"
  /\ db_interrupted \/ db_i > Len(db_dirs)
  /\ db_pc' = "returned"
  /\ db_ret' = db_stats
  /\ UNCHANGED <<db_dirs, db_i, db_stats, db_counts, db_interrupted>>
  /\ UNCHANGED <<ingestVars, concVars, syncVars, chunkVars, extractVars, feedVars, lgVars, rsVars>>

NextDb == DbStart \/ DbSource \/ DbSigint \/ DbReturn

SpecDb == InitDb /\ [][NextDb]_vars

\* ============================================================ failure ledgers
\* calls of a ledger function in one behaviour
MaxLogCalls == 3
LedgerErrors == {"e1", "e2"}

\* the variables the ledger calls leave alone
ledgerRest == <<rss_articles, article_metadata, uuidCtr, source_name, xml_files, pc,
                existing_urls, fileIdx, itemIdx, started, stats, total_stats, last, nRuns,
                nWrites, concVars, tracking, vectors, sync_pc, sync_ns, batch_size,
                to_process, bi, sync_stats, failed_records, ri, slast, nOps, chunkVars,
                extractVars, feedVars, dbVars, rsVars>>

InitLedger ==
  /\ InitStore /\ WorkersOff /\ SyncIdle /\ ChunkIdle /\ ExtractIdle /\ FeedIdle /\ DbIdle
  /\ ResolveIdle
  /\ source_name = "example.com"
  /\ xml_files = << <<[link |-> "a", inline |-> TRUE]>> >>
  /\ lg_kind = "article"
  /\ lg_pc = [w \in Loggers |-> "idle"]
  /\ lg_arg = [w \in Loggers |-> NoArg]
  /\ lg_seen = [w \in Loggers |-> NoRow]
  /\ lg_calls = [k \in LedgerKeys("embedding") |-> 0]
  /\ lg_faulted = FALSE
  /\ lg_n = 0
  /\ lg_last = NoLast

\* one whole call of log_failed_article, no other call under way; dbOk: the
\* store took the query and the write (the except at lines 49-50 logs an
\* error of the store and the call returns)
LogFailedArticle ==
  /\ lg_kind = "article"
  /\ lg_n < MaxLogCalls
  /\ lg_n' = lg_n + 1
  /\ \E u \in LedgerUuids, url \in FileLinks, etype \in LedgerErrors, dbOk \in BOOLEAN :
       LET msg == "message of " \o etype
           key == [uuid |-> u, chunk_index |-> 0]
       IN /\ failed_articles' = IF dbOk
                                 THEN log_failed_article(failed_articles, u, url, etype, msg)
                                 ELSE failed_articles
          /\ lg_calls' = [lg_calls EXCEPT ![key] = @ + 1]
          /\ lg_faulted' = (lg_faulted \/ ~dbOk)
          /\ lg_last' = [op |-> "log", uuid |-> u, url |-> url, error_type |-> etype,
                         error_message |-> msg, dbOk |-> dbOk]
  /\ UNCHANGED <<lg_kind, lg_pc, lg_arg, lg_seen, failed_embeddings>>
  /\ UNCHANGED ledgerRest

NextLedger == LogFailedArticle

SpecLedger == InitLedger /\ [][NextLedger]_vars

\* two callers at once, on either ledger
InitLedgerConc ==
  /\ InitStore /\ WorkersOff /\ SyncIdle /\ ChunkIdle /\ ExtractIdle /\ FeedIdle /\ DbIdle
  /\ ResolveIdle
  /\ source_name = "example.com"
  /\ xml_files = << <<[link |-> "a", inline |-> TRUE]>> >>
  /\ lg_kind \in {"article", "embedding"}
  /\ lg_pc = [w \in Loggers |-> "idle"]
  /\ lg_arg = [w \in Loggers |-> NoArg]
  /\ lg_seen = [w \in Loggers |-> NoRow]
  /\ lg_calls = [k \in LedgerKeys("embedding") |-> 0]
  /\ lg_faulted = FALSE
  /\ lg_n = 0
  /\ lg_last = NoLast

\* existing = objects.filter(...).first(): the first row of the key, kept as
\* an object with the attempt_count it had when read
LgRead(w) ==
  /\ lg_kind \in {"article", "embedding"}
  /\ lg_pc[w] = "idle"
  /\ lg_n < MaxLogCalls
  /\ lg_n' = lg_n + 1
  /\ \E key \in LedgerKeys(lg_kind), etype \in LedgerErrors :
       LET i == IF lg_kind = "article" THEN FirstIdx(failed_articles, key.uuid)
                ELSE FirstEmbIdx(failed_embeddings, key.uuid, key.chunk_index)
           tbl == IF lg_kind = "article" THEN failed_articles ELSE failed_embeddings
       IN /\ lg_arg' = [lg_arg EXCEPT ![w] = [key |-> key, error_type |-> etype]]
          /\ lg_seen' = [lg_seen EXCEPT ![w] =
                           IF i = 0 THEN NoRow
                           ELSE [pk |-> i, attempt_count |-> tbl[i].attempt_count]]
  /\ lg_pc' = [lg_pc EXCEPT ![w] = "read"]
  /\ UNCHANGED <<lg_kind, lg_calls, lg_faulted, lg_last, failed_articles, failed_embeddings>>
  /\ UNCHANGED ledgerRest

\* the rest of the call: existing.attempt_count += 1 and existing.save() (an
\* UPDATE of the row read, with the values of the object), or objects.create
LgWrite(w) ==
  /\ lg_pc[w] = "read"
  /\ LET key == lg_arg[w].key
         etype == lg_arg[w].error_type
         seen == lg_seen[w]
         msg == "message of " \o etype
     IN /\ failed_articles' =
             IF lg_kind # "article" THEN failed_articles
             ELSE IF seen.pk # 0
             THEN [failed_articles EXCEPT ![seen.pk] =
                     [@ EXCEPT !.attempt_count = seen.attempt_count + 1,
                               !.error_message = msg, !.error_type = etype, !.url = "a"]]
             ELSE Append(failed_articles,
                         [uuid |-> key.uuid, url |-> "a", error_type |-> etype,
                          error_message |-> msg, attempt_count |-> 1])
        /\ failed_embeddings' =
             IF lg_kind # "embedding" THEN failed_embeddings
             ELSE IF seen.pk # 0
             THEN [failed_embeddings EXCEPT ![seen.pk] =
                     [@ EXCEPT !.attempt_count = seen.attempt_count + 1,
                               !.error_type = etype]]
             ELSE Append(failed_embeddings,
                         [article_uuid |-> key.uuid, chunk_index |-> key.chunk_index,
                          total_chunks |-> Cardinality(LedgerChunks), error_type |-> etype,
                          attempt_count |-> 1])
        /\ lg_calls' = [lg_calls EXCEPT ![key] = @ + 1]
        /\ lg_last' = [op |-> "log", key |-> key, error_type |-> etype]
  /\ lg_pc' = [lg_pc EXCEPT ![w] = "idle"]
  /\ UNCHANGED <<lg_kind, lg_arg, lg_seen, lg_faulted, lg_n>>
  /\ UNCHANGED ledgerRest

NextLedgerConc == \E w \in Loggers : LgRead(w) \/ LgWrite(w)

SpecLedgerConc == InitLedgerConc /\ [][NextLedgerConc]_vars

\* ============================================================ url resolution
\* range(1, 4): the reload attempts
MaxReloads == 3
\* a page of the host of the input url that is not the article
ConsentUrl == "consent"
\* urlparse(url).netloc
HostOf(url) == IF url \in ResolvedUrls THEN "publisher.example" ELSE GNEWS
\* where the page can be after goto or reload
PageUrls(url) == {url, ConsentUrl, Redirect(url)}

InitResolve ==
  /\ InitStore /\ WorkersOff /\ SyncIdle /\ ChunkIdle /\ ExtractIdle /\ FeedIdle /\ DbIdle
  /\ LedgerIdle
  /\ source_name = GNEWS
  /\ xml_files = << <<[link |-> "a", inline |-> TRUE]>> >>
  /\ rs_pc = "start"
  /\ rs_url \in FileLinks
  /\ rs_final = None
  /\ rs_attempt = 1
  /\ rs_waits = <<>>
  /\ rs_ret = None
  /\ rs_last = NoLast

\* lines 10-16: launch and goto; an exception goes to the outer handler
\* (lines 42-46), which returns None
RsGoto ==
  /\ rs_pc = "start"
  /\ \E out \in PageUrls(rs_url) \cup {RAISED} :
       IF out = RAISED
       THEN /\ rs_ret' = None
            /\ rs_pc' = "returned"
            /\ UNCHANGED rs_final
       ELSE /\ rs_final' = out
            /\ rs_pc' = "loop"
            /\ UNCHANGED rs_ret
  /\ UNCHANGED <<rs_url, rs_attempt, rs_waits, rs_last>>
  /\ UNCHANGED <<ingestVars, concVars, syncVars, chunkVars, extractVars, feedVars, dbVars,
                 lgVars>>

\* (mutant) a loop that returns the page url after a reload whatever its host
RsReload_NoHostCheck ==
  /\ rs_pc = "loop"
  /\ rs_attempt <= MaxReloads
  /\ rs_waits' = Append(rs_waits, 2 ^ rs_attempt)
  /\ \E out \in PageUrls(rs_url) \cup {RAISED} :
       IF out = RAISED
       THEN /\ rs_pc' = "after"
            /\ UNCHANGED <<rs_final, rs_attempt, rs_ret>>
       ELSE /\ rs_final' = out
            /\ rs_ret' = out
            /\ rs_pc' = "returned"
            /\ UNCHANGED rs_attempt
  /\ UNCHANGED <<rs_url, rs_last>>
  /\ UNCHANGED <<ingestVars, concVars, syncVars, chunkVars, extractVars, feedVars, dbVars,
                 lgVars>>

\* one iteration of the loop (lines 18-30): sleep 2 ** attempt, reload, return
\* the page url if its host is not the initial one; an exception of the
\* reload leaves the loop
RsReload ==
  /\ rs_pc = "loop"
  /\ rs_attempt <= MaxReloads
  /\ rs_waits' = Append(rs_waits, 2 ^ rs_attempt)
  /\ \E out \in PageUrls(rs_url) \cup {RAISED} :
       IF out = RAISED
       THEN /\ rs_pc' = "after"
            /\ UNCHANGED <<rs_final, rs_attempt, rs_ret>>
       ELSE /\ rs_final' = out
            /\ IF HostOf(out) # HostOf(rs_url)
               THEN /\ rs_ret' = out
                    /\ rs_pc' = "returned"
                    /\ UNCHANGED rs_attempt
               ELSE /\ rs_attempt' = rs_attempt + 1
                    /\ rs_pc' = IF rs_attempt = MaxReloads THEN "after" ELSE "loop"
                    /\ UNCHANGED rs_ret
  /\ UNCHANGED <<rs_url, rs_last>>
  /\ UNCHANGED <<ingestVars, concVars, syncVars, chunkVars, extractVars, feedVars, dbVars,
                 lgVars>>

\* after the loop (lines 32-40)
RsAfter ==
  /\ rs_pc = "after"
  /\ rs_ret' = IF HostOf(rs_final) = HostOf(rs_url) THEN None ELSE rs_final
  /\ rs_pc' = "returned"
  /\ UNCHANGED <<rs_url, rs_final, rs_attempt, rs_waits, rs_last>>
  /\ UNCHANGED <<ingestVars, concVars, syncVars, chunkVars, extractVars, feedVars, dbVars,
                 lgVars>>

\* process_single_article on the news.google.com item with that link and no
\* content:encoded, the call at its line 240 returning rs_ret; the handler of
\* lines 250-254 is there for an exception out of the call
RsProcess ==
  /\ rs_pc = "returned"
  /\ \E resolveOut \in {rs_ret, RAISED}, fetchOut \in {"text", None}, metaFault \in BOOLEAN :
       LET r == process_single_article([link |-> rs_url, inline |-> FALSE], GNEWS, {},
                                       rss_articles, article_metadata, failed_articles,
                                       uuidCtr, resolveOut, fetchOut, metaFault)
       IN /\ rss_articles' = r.rows
          /\ article_metadata' = r.meta
          /\ failed_articles' = r.failed
          /\ uuidCtr' = r.ctr
          /\ rs_last' = [op |-> "item", resolved |-> resolveOut, status |-> r.status,
                         branch |-> r.branch, link |-> r.link, uuid |-> r.uuid]
  /\ rs_pc' = "processed"
  /\ UNCHANGED <<rs_url, rs_final, rs_attempt, rs_waits, rs_ret>>
  /\ UNCHANGED <<source_name, xml_files, pc, existing_urls, fileIdx, itemIdx, started, stats,
                 total_stats, last, nRuns, nWrites>>
  /\ UNCHANGED <<concVars, syncVars, chunkVars, extractVars, feedVars, dbVars, lgVars>>

NextResolve == RsGoto \/ RsReload \/ RsAfter \/ RsProcess

SpecResolve == InitResolve /\ [][NextResolve]_vars

\* ==================================================================== claims
AllLinks == FileLinks \cup ResolvedUrls

\* C1: after any sequence of write_article_to_db calls the store holds at most
\* one row per link; a call for a link that is already stored (with the same or
\* another uuid) leaves that row as it was and returns through the
\* IntegrityError branch (duplicate, False).
C1_OneRowPerLink ==
  /\ \A l \in AllLinks : Cardinality(RowsFor(rss_articles, l)) <= 1
  /\ (last.op = "write" /\ last.stored # {}) =>
       /\ last.branch = "duplicate"
       /\ last.ret = FALSE
       /\ RowsFor(rss_articles, last.link) = last.stored

\* a stored link was ingested again under another uuid
C1_Witness ==
  /\ last.op = "write"
  /\ last.stored # {}
  /\ \A r \in last.stored : r.uuid # last.uuid

\* C3: an item whose insert the store rejects as a duplicate (its link was not in
\* the known-URL set) does not increase the failed count of
\* process_xml_file_efficiently.
C3_DuplicateNotFailed ==
  (last.op = "item" /\ last.branch = "duplicate") => last.failedAfter = last.failedBefore

\* C2: two concurrent ingestions of one link, each having found the link absent
\* from its known-URL set and each reaching the insert: under every interleaving
\* one row for the link is stored and one call is rejected as a duplicate; the
\* other call reports inserted, unless its metadata insert fails.
BothInsertSameLink ==
  /\ witem[1].link = witem[2].link
  /\ \A w \in Workers : wpc[w] = "done" /\ wres[w] \in {"inserted", "duplicate", "meta_failed"}

C2_ConcurrentSameLink ==
  BothInsertSameLink =>
    /\ Cardinality(RowsFor(rss_articles, witem[1].link)) = 1
    /\ Cardinality({w \in Workers : wres[w] = "duplicate"}) = 1
    /\ Cardinality({w \in Workers : wres[w] = "inserted"}) <= 1
    /\ (\A w \in Workers : wres[w] # "meta_failed") =>
         Cardinality({w \in Workers : wres[w] = "inserted"}) = 1

\* both calls passed the known-URL check before either inserted, and one inserted
C2_Witness ==
  /\ BothInsertSameLink
  /\ \A w \in Workers : witem[w].link \notin wknown[w] \/ wres[w] = "inserted"
  /\ \E w \in Workers : wres[w] = "inserted"
  /\ \E w \in Workers : wres[w] = "duplicate"

\* C4: a sync call (upsert_articles_to_pinecone with the index at hand) for
\* articles whose tracking row is synced in the call's namespace counts each of
\* them as already_synced, leaves them out of articles_to_process, and none of
\* its batches embeds or upserts anything for them.
C4_SyncedSkipped ==
  /\ (slast.op = "sync_start" /\ slast.initOk) =>
       /\ sync_stats.already_synced =
            Cardinality(slast.input \cap SyncedIn(tracking, slast.ns))
       /\ Range(to_process) = slast.input \ SyncedIn(tracking, slast.ns)
  /\ slast.op = "batch" =>
       /\ slast.embedded \cap slast.syncedBefore = {}
       /\ {v.uuid : v \in slast.upserted} \cap slast.syncedBefore = {}

\* a sync call was made for articles of which some were synced already
C4_Witness ==
  /\ slast.op = "sync_start"
  /\ slast.initOk
  /\ slast.input \cap SyncedIn(tracking, slast.ns) # {}
  /\ sync_stats.already_synced > 0

\* C5: no step of a sync or a retry hands an article to the embedding provider
\* for a namespace in which its tracking status is synced.
C5_SyncedNeverReembedded ==
  slast.op \in {"batch", "retry_record"} => slast.embedded \cap slast.syncedBefore = {}

\* C6: when the upsert of a batch fails, every article of the batch has tracking
\* status failed in the namespace, with the failure reason as error_message, and
\* none has status synced.
C6_UpsertFailureMarksFailed ==
  (slast.op = "batch" /\ slast.outcome = "upsert_failed") =>
    \A u \in slast.batch :
      /\ \E r \in tracking : /\ r.article_uuid = u
                             /\ r.namespace = slast.ns
                             /\ r.status = "failed"
                             /\ r.error_message = UPSERT_ERROR
      /\ ~is_article_synced_to_vector_db(tracking, u, slast.ns)

\* C7: an article with status synced in a namespace has contributed vectors, and
\* the vector of every one of its chunks is in the vector store under that
\* namespace.
C7_SyncedOnlyIfUpserted ==
  \A r \in tracking :
    r.status = "synced" =>
      /\ ArticleInfo(r.article_uuid) # <<>>
      /\ \A x \in Range(ArticleInfo(r.article_uuid)) :
           [uuid |-> x.uuid, chunk |-> x.chunk_index, namespace |-> r.namespace] \in vectors

\* C8: after a successful sync of an article to a namespace while it is synced
\* in another namespace, there is exactly one synced tracking row for the
\* article in each of the two namespaces.
C8_PerNamespaceTracking ==
  (slast.op = "batch" /\ slast.outcome = "upserted") =>
    \A u \in slast.batch : \A n \in Namespaces \ {slast.ns} :
      u \in SyncedIn(tracking, n) =>
        \A m \in {n, slast.ns} :
          Cardinality({r \in tracking : /\ r.article_uuid = u
                                        /\ r.namespace = m
                                        /\ r.status = "synced"}) = 1

\* C9: no step of a sync or a retry takes a synced tracking row away or changes
\* its status; a row with status failed has status synced and an empty
\* error_message after a batch of its article and namespace is upserted.
C9_Monotone ==
  [][
    /\ \A r \in tracking :
         r.status = "synced" =>
           \E q \in tracking' : /\ q.article_uuid = r.article_uuid
                                /\ q.namespace = r.namespace
                                /\ q.status = "synced"
    /\ (slast'.op = "batch" /\ slast'.outcome = "upserted") =>
         \A u \in slast'.batch \cap FailedIn(tracking, slast'.ns) :
           \E q \in tracking' : /\ q.article_uuid = u
                                /\ q.namespace = slast'.ns
                                /\ q.status = "synced"
                                /\ q.error_message = ""
  ]_vars

\* a batch holding an article with status failed was upserted
C9_Witness ==
  /\ slast.op = "batch"
  /\ slast.outcome = "upserted"
  /\ slast.batch \cap slast.failedBefore # {}
  /\ slast.batch \cap slast.failedBefore \subseteq SyncedIn(tracking, slast.ns)

\* C10: a retry that succeeds for a failed (article_uuid, chunk_index) record
\* deletes that row of failed_vector_embeddings and no other, and leaves the
\* article with tracking status synced in the namespace.
C10_RetryClearsAndSyncs ==
  (slast.op = "retry_record" /\ slast.result) =>
    /\ Range(failed_embeddings) =
         {r \in slast.rowsBefore :
            ~(r.article_uuid = slast.uuid /\ r.chunk_index = slast.chunk_index)}
    /\ is_article_synced_to_vector_db(tracking, slast.uuid, slast.ns)

\* C11: a step of retry_failed_embeddings hands to the embedding provider only
\* chunks that have a row in failed_vector_embeddings; a chunk of the article
\* without such a row is not embedded again.
C11_RetryOnlyFailedChunks ==
  slast.op = "retry_record" =>
    \A c \in slast.embeddedChunks :
      \E r \in slast.rowsBefore : r.article_uuid = c.uuid /\ r.chunk_index = c.chunk

\* C12 (as stated): an article of W words chunked with budget B yields exactly
\* ceil(W/B) chunks.
C12_CeilChunks ==
  ch_pc = "chunked" =>
    Len(ch_chunks) = (Len(ch_article.words) + ch_budget - 1) \div ch_budget

\* C12 (amended): an article of W words chunked with budget B >= 1 yields one
\* chunk when W = 0 and ceil(W/B) chunks otherwise; every chunk's metadata has
\* total_chunks equal to that number and chunk_index equal to its position.
C12_ChunkCount ==
  ch_pc = "chunked" =>
    LET W == Len(ch_article.words)
        n == IF W = 0 THEN 1 ELSE (W + ch_budget - 1) \div ch_budget
    IN /\ Len(ch_chunks) = n
       /\ \A i \in 1..Len(ch_chunks) :
            /\ ch_chunks[i].total_chunks = n
            /\ ch_chunks[i].chunk_index = i - 1

\* an article over the budget whose last chunk is partial has been chunked
C12_Witness ==
  /\ ch_pc = "chunked"
  /\ Len(ch_article.words) > ch_budget
  /\ Len(ch_article.words) % ch_budget # 0
  /\ Len(ch_chunks) >= 2

\* C13 (as stated): the vectors prepared for an article have exactly the ids
\* {uuid}_chunk_{index} for every index in [0, total_chunks).
C13_IdForEveryIndex ==
  (ch_pc = "prepared" /\ ch_embedOk) =>
    {ch_vectors[j].id : j \in 1..Len(ch_vectors)} =
      {ch_article.uuid \o "_chunk_" \o ToString(i) : i \in 0..(Len(ch_chunks) - 1)}

\* C13 (amended): when the embedding call returns, the vectors prepared for an
\* article have exactly the ids {uuid}_chunk_{index} for the indexes in
\* [0, total_chunks) whose chunk text has at least 10 characters; the ids are
\* pairwise distinct and each id's index is the chunk_index of its metadata.
C13_VectorIds ==
  (ch_pc = "prepared" /\ ch_embedOk) =>
    LET kept == {i \in 0..(Len(ch_chunks) - 1) :
                   StrippedLen(ch_chunks[i + 1].text) >= MinChunkChars}
        ids == {ch_vectors[j].id : j \in 1..Len(ch_vectors)}
    IN /\ ids = {ch_article.uuid \o "_chunk_" \o ToString(i) : i \in kept}
       /\ Cardinality(ids) = Len(ch_vectors)
       /\ \A j \in 1..Len(ch_vectors) :
            /\ ch_vectors[j].id =
                 ch_article.uuid \o "_chunk_" \o ToString(ch_vectors[j].metadata.chunk_index)
            /\ ch_vectors[j].metadata.total_chunks = Len(ch_chunks)
            /\ ch_vectors[j].metadata.uuid = ch_article.uuid

\* vectors were prepared for an article of several chunks, one of them short
C13_Witness ==
  /\ ch_pc = "prepared"
  /\ ch_embedOk
  /\ Len(ch_chunks) >= 2
  /\ Len(ch_vectors) >= 1
  /\ Len(ch_vectors) < Len(ch_chunks)

\* C14: with method "all" the strategies are invoked in the order newspaper3k,
\* trafilatura, readability, playwright, jina; every strategy invoked before
\* the last one gave no acceptable text, and when some strategy gives acceptable
\* text the call returns the text of the first such strategy, which is the last
\* one invoked.
C14_FirstAcceptable ==
  (ex_pc \in {"loop", "done"} /\ Lower(ex_method) = "all") =>
    /\ ex_calls = SubSeq(StrategyOrder, 1, Len(ex_calls))
    /\ \A i \in 1..(Len(ex_calls) - 1) : ex_outcome[ex_calls[i]] # "ok"
    /\ (ex_pc = "done" /\ \E n \in Strategies : ex_outcome[n] = "ok") =>
         /\ ex_outcome[ex_calls[Len(ex_calls)]] = "ok"
         /\ ex_result = "text of " \o ex_calls[Len(ex_calls)]

\* the first strategy gave short text, the second acceptable text, later ones
\* would have given text too
C14_Witness ==
  /\ ex_pc = "done"
  /\ Lower(ex_method) = "all"
  /\ ex_outcome["newspaper3k"] = "short"
  /\ ex_outcome["trafilatura"] = "ok"
  /\ ex_outcome["readability"] = "ok"
  /\ ex_calls = <<"newspaper3k", "trafilatura">>
  /\ ex_result = "text of trafilatura"

\* C15: with a specific method in force, the call invokes that strategy and no
\* other, and returns None when it raises or gives short text.
C15_OnlySelected ==
  (ex_pc = "done" /\ Lower(ex_method) \in Strategies) =>
    /\ ex_calls = <<Lower(ex_method)>>
    /\ ex_outcome[Lower(ex_method)] # "ok" => ex_result = None
    /\ ex_outcome[Lower(ex_method)] = "ok" => ex_result = "text of " \o Lower(ex_method)

\* the method preferred for the url's domain gave nothing while another
\* strategy would have given text
C15_Witness ==
  /\ ex_pc = "done"
  /\ ex_arg = None
  /\ Lower(ex_method) \in Strategies
  /\ ex_outcome[Lower(ex_method)] # "ok"
  /\ \E n \in Strategies : ex_outcome[n] = "ok"
  /\ ex_result = None
  /\ Len(ex_calls) = 1

\* C16: no exception leaves get_article_content; with method "all" a strategy
\* that raises does not end the chain, and when no strategy gives acceptable
\* text every strategy has been invoked and the call returns None.
C16_NeverRaises ==
  /\ ~ex_raised
  /\ (ex_pc = "done" /\ Lower(ex_method) = "all"
        /\ \A n \in Strategies : ex_outcome[n] # "ok") =>
       ex_calls = StrategyOrder /\ ex_result = None
  /\ (ex_pc = "done" /\ Lower(ex_method) = "all") =>
       \A i \in 1..Len(StrategyOrder) :
         (\A j \in 1..i : ex_outcome[StrategyOrder[j]] # "ok") => Len(ex_calls) >= i

\* the first strategy raised and the chain went on to the end
C16_Witness ==
  /\ ex_pc = "done"
  /\ Lower(ex_method) = "all"
  /\ ex_outcome["newspaper3k"] = "raise"
  /\ \A n \in Strategies : ex_outcome[n] # "ok"
  /\ ex_calls = StrategyOrder
  /\ ex_result = None

\* C17: a call of process_rss_feed returns True only for a fetched document
\* whose hash differs from the hash stored for the url (none stored counting as
\* different), and then the document has been written and its hash stored; it
\* returns True whenever the hash differs and the file can be written; on a
\* document whose hash is the stored one it returns False and writes nothing.
C17_EmitOnChange ==
  fd_last.op = "feed" =>
    LET stored == fd_last.hashesBefore[fd_last.url]
        changed == fd_last.doc # None /\ calculate_hash(fd_last.doc) # stored
    IN /\ fd_last.ret =>
            /\ changed
            /\ fd_last.wrote
            /\ [url |-> fd_last.url, doc |-> fd_last.doc] \in fd_files
            /\ fd_hashes[fd_last.url] = calculate_hash(fd_last.doc)
       /\ (changed /\ fd_last.writable) => fd_last.ret
       /\ (fd_last.doc # None /\ ~changed) =>
            /\ ~fd_last.ret
            /\ fd_files = fd_last.filesBefore

\* a feed that was emitted before is processed again with the same document
C17_Witness ==
  /\ fd_last.op = "feed"
  /\ fd_last.doc # None
  /\ calculate_hash(fd_last.doc) = fd_last.hashesBefore[fd_last.url]
  /\ [url |-> fd_last.url, doc |-> fd_last.doc] \in fd_files
  /\ ~fd_last.ret

\* C18: when process_rss_feed does not return True, the hashes map is as it
\* was before the call, for every feed url.
C18_FalseKeepsHashes ==
  (fd_last.op = "feed" /\ ~fd_last.ret) => fd_hashes = fd_last.hashesBefore

\* a changed document could not be written
C18_Witness ==
  /\ fd_last.op = "feed"
  /\ ~fd_last.ret
  /\ fd_last.doc # None
  /\ calculate_hash(fd_last.doc) # fd_last.hashesBefore[fd_last.url]
  /\ ~fd_last.writable
  /\ fd_hashes[fd_last.url] # calculate_hash(fd_last.doc)

\* C19: a download run that SIGINT interrupted has ended with the feed it was
\* working on finished and with rss_hashes.json holding the run's hashes map.
C19_GracefulShutdown ==
  (fd_pc = "ended" /\ fd_interrupted) =>
    /\ fd_unfinished = None
    /\ fd_disk = fd_hashes

\* C20: the failures of one item are recorded in one row of failed_articles
\* (the item's uuid being the same at every attempt, a later failure updates
\* the row and increments its attempt_count): no two rows hold the same url.
C20_OneFailedRowPerItem ==
  \A i, j \in 1..Len(failed_articles) :
    failed_articles[i].url = failed_articles[j].url => i = j

\* C21: when every extraction strategy is exhausted for a link-only item, the
\* article is still stored (a primary row under its link and a metadata row
\* under its uuid) and the failure is logged in failed_articles.
C21_ExhaustedStillStored ==
  (last.op = "item" /\ last.branch = "content_extraction_failed") =>
    /\ \E r \in rss_articles : r.url = last.link /\ r.uuid = last.uuid
    /\ \E m \in article_metadata : m.uuid = last.uuid
    /\ \E i \in 1..Len(failed_articles) : failed_articles[i].uuid = last.uuid

\* C22: within a file every item is handled once, in order, and gets one of
\* processed, skipped, failed, whatever happened to the items before it: after
\* the k-th item the three counts add up to k, and unless it was the last
\* item the loop stands at item k+1 of the same file.
C22_EveryItemCounted ==
  /\ pc = "phase2" => stats.processed + stats.skipped + stats.failed = itemIdx - 1
  /\ last.op = "item" =>
       /\ last.status \in {"processed", "skipped", "failed"}
       /\ last.counted.processed + last.counted.skipped + last.counted.failed = last.index
       /\ last.index < Len(xml_files[last.file]) =>
            pc = "phase2" /\ fileIdx = last.file /\ itemIdx = last.index + 1 /\ stats = last.counted
       /\ last.index = Len(xml_files[last.file]) =>
            fileIdx = last.file + 1 /\ itemIdx = 1

\* a file's second item was processed after its first item had failed
C22_Witness ==
  /\ last.op = "item"
  /\ last.index = 2
  /\ last.status = "processed"
  /\ last.counted = [processed |-> 1, skipped |-> 0, failed |-> 1]

\* C30: when the metadata insert fails after the primary row was inserted, a
\* row of failed_articles keyed by the article's uuid exists afterwards and
\* write_article_to_db reports failure.
C30_MetadataFailureLogged ==
  (last.op = "write" /\ last.branch = "failed") =>
    /\ last.ret = FALSE
    /\ \E i \in 1..Len(failed_articles) : failed_articles[i].uuid = last.uuid

\* the sum of the counts under `key` of a sequence of per-source counts
RECURSIVE SumOf(_, _)
SumOf(counts, key) ==
  IF counts = <<>> THEN 0 ELSE counts[1][key] + SumOf(Tail(counts), key)

\* C23: the summary process_articles_to_db returns after its loop reports,
\* under processed, skipped and failed, the sums of the counts the sources of
\* the run ended with.
C23_SummaryIsSum ==
  (db_pc = "returned" /\ db_counts # <<>>) =>
    \A key \in {"processed", "skipped", "failed"} : db_ret[key] = SumOf(db_counts, key)

\* C29: the hash store holds a feed's fingerprint only if the document with
\* that fingerprint was written for the feed and its items were all parsed
\* and ingested.
C29_PersistedAfterHandled ==
  \A u \in DOMAIN fd_disk :
    fd_disk[u] # None =>
      \E f \in fd_handled : f.url = u /\ calculate_hash(f.doc) = fd_disk[u]

\* C24: after a failed batch upsert, failed_embeddings holds exactly one row
\* per chunk of every article of the batch: rows (uuid, 0) .. (uuid, n-1)
\* for an article of n chunks.
C24_RowPerChunkOnUpsertFailure ==
  (slast.op = "batch" /\ slast.outcome = "upsert_failed") =>
    \A u \in slast.batch : \A ci \in 0..(Len(ArticleChunks[u]) - 1) :
      Cardinality({i \in 1..Len(failed_embeddings) :
                     /\ failed_embeddings[i].article_uuid = u
                     /\ failed_embeddings[i].chunk_index = ci}) = 1

\* C25: when the embedding of one chunk of a batch fails, that chunk has a
\* row in failed_embeddings, no row is created or updated for another chunk,
\* and the other chunks of the batch are still embedded and sent to the
\* upsert.
C25_EmbeddingFailureIsolated ==
  (slast.op = "batch" /\ slast.rejected # {}) =>
    /\ \A c \in slast.rejected : \E r \in Range(failed_embeddings) :
         r.article_uuid = c.uuid /\ r.chunk_index = c.chunk
    /\ \A r \in Range(failed_embeddings) :
         (\E c \in slast.chunks \ slast.rejected :
            r.article_uuid = c.uuid /\ r.chunk_index = c.chunk) => r \in slast.rowsBefore
    /\ slast.chunks \ slast.rejected # {} => slast.outcome # "skipped"

\* C26: after a successful batch upsert the tracking row of every article of
\* the batch that is marked synced names a vector id and has total_chunks and
\* synced_chunks equal to the number of vectors upserted for the article.
C26_SyncedRowRecordsChunks ==
  (slast.op = "batch" /\ slast.outcome = "upserted") =>
    \A u \in slast.batch : \A r \in Existing(tracking, u, slast.ns) :
      r.status = "synced" =>
        LET n == Cardinality({v \in slast.upserted : v.uuid = u}) IN
        /\ r.vector_id # ""
        /\ r.total_chunks = n
        /\ r.synced_chunks = n

\* C27: for an article of more words than the budget B, the chunk texts are
\* the consecutive slices of B words of its text: no chunk has more than B
\* words, every chunk but the last has B, and the k-th word of the text is,
\* whole, the word at its place in its chunk, the last chunk ending with the
\* last word.
C27_ConsecutiveWholeWords ==
  (ch_pc \in {"chunked", "prepared"} /\ Len(ch_article.words) > ch_budget) =>
    LET n == Len(ch_chunks)
        W == Len(ch_article.words)
    IN /\ \A i \in 1..n : Len(ch_chunks[i].text) <= ch_budget
       /\ \A i \in 1..(n - 1) : Len(ch_chunks[i].text) = ch_budget
       /\ \A k \in 1..W :
            LET i == ((k - 1) \div ch_budget) + 1
                j == ((k - 1) % ch_budget) + 1
            IN /\ i <= n
               /\ j <= Len(ch_chunks[i].text)
               /\ ch_chunks[i].text[j] = ch_article.words[k]
       /\ Len(ch_chunks[n].text) = W - (n - 1) * ch_budget

\* C28: whatever get_article_content returns other than None, in the
\* preferred-method mode and in the all-strategies mode, is the text of a
\* strategy it called whose stripped length exceeds 100 characters.
C28_ResultLongEnough ==
  (ex_pc = "done" /\ ex_result # None) =>
    \E i \in 1..Len(ex_calls) :
      /\ ex_result = "text of " \o ex_calls[i]
      /\ ex_outcome[ex_calls[i]] # "raise"
      /\ ExtractedLen(ex_outcome[ex_calls[i]]) > 100

\* the chain returned a text after a strategy that gave 100 characters
C28_Witness ==
  /\ ex_pc = "done"
  /\ ex_result # None
  /\ Lower(ex_method) = "all"
  /\ \E i \in 1..Len(ex_calls) :
       ex_outcome[ex_calls[i]] = "short" /\ ExtractedLen(ex_outcome[ex_calls[i]]) = 100

\* C34: when get_pinecone_index fails for want of the credential, the call of
\* upsert_articles_to_pinecone on a non-empty list ends with an error raised
\* to its caller, not with a stats value returned.
C34_MissingCredentialRaised ==
  (slast.op = "sync_start" /\ ~slast.initOk /\ slast.input # {}) =>
    slast.raised /\ ~slast.returned

\* C35: after any sequence of write_article_to_db calls a link has a primary
\* row exactly if it has a metadata row.
C35_RowIffMetadata ==
  \A l \in AllLinks :
    (\E r \in rss_articles : r.url = l) <=> (\E m \in article_metadata : m.url = l)

\* C37: an article whose tracking row says synced has no row left in
\* failed_embeddings.
C37_SyncedHasNoFailedRow ==
  \A r \in tracking :
    r.status = "synced" =>
      \A i \in 1..Len(failed_embeddings) : failed_embeddings[i].article_uuid # r.article_uuid

\* C32: phase 2 enters a file only if, when it reaches it, the file holds a
\* URL that is not in the known-URL set; a run reaches phase 2 only if the
\* files hold a URL that is not stored, and a run that does not reach it
\* leaves the tables and the uuid counter as they were.
C32_OnlyFilesWithNewUrls ==
  [][ /\ (last'.op = "item" /\ ~started /\ <<fileIdx, itemIdx>>' # <<fileIdx, itemIdx>>) =>
           \E i \in 1..Len(xml_files[fileIdx]) : xml_files[fileIdx][i].link \notin existing_urls
      /\ (pc = "idle" /\ pc' = "phase2") =>
           \E f \in 1..Len(xml_files) : \E i \in 1..Len(xml_files[f]) :
             xml_files[f][i].link \notin {r.url : r \in rss_articles}
      /\ (pc = "idle" /\ pc' = "idle") =>
           UNCHANGED <<rss_articles, article_metadata, failed_articles, uuidCtr>>
    ]_vars

\* phase 2 passed over a file that held no new URL
C32_Witness ==
  /\ last.op = "skipfile"
  /\ pc = "phase2"
  /\ \A i \in 1..Len(xml_files[last.file]) : xml_files[last.file][i].link \in existing_urls

\* C36: the first item a second run of process_source_directory handles is
\* skipped as known, without resolution, extraction or insert, when the store
\* already holds the article made of it (a primary row under its link, for a
\* link-only item of news.google.com under the resolved link, and the
\* metadata row).
C36_SecondRunSkips ==
  LET stored == IF ~last.item.inline /\ source_name = GNEWS
                THEN Redirect(last.item.link) ELSE last.item.link
  IN (/\ last.op = "item"
      /\ nRuns = 2
      /\ last.firstOfRun
      /\ \E r \in rss_articles :
           /\ r.url = stored
           /\ last.uuid = 0 \/ r.uuid < last.uuid
           /\ \E m \in article_metadata : m.uuid = r.uuid) =>
       /\ last.branch = "known"
       /\ last.uuid = 0

\* C31: after any sequence of log_failed_article calls made one after the
\* other, failed_articles holds at most one row per uuid; as long as the
\* store refused no call, a uuid has a row exactly if a call was made for it,
\* the row's attempt_count is the number of calls made for the uuid, and the
\* row of the last call holds that call's error_type, error_message and url.
C31_OneRowCountsCalls ==
  \A u \in LedgerUuids :
    LET rows == {i \in 1..Len(failed_articles) : failed_articles[i].uuid = u}
        calls == lg_calls[[uuid |-> u, chunk_index |-> 0]]
    IN /\ Cardinality(rows) <= 1
       /\ ~lg_faulted =>
            /\ calls = 0 <=> rows = {}
            /\ \A i \in rows : failed_articles[i].attempt_count = calls
            /\ (lg_last.op = "log" /\ lg_last.uuid = u) =>
                 \A i \in rows :
                   /\ failed_articles[i].error_type = lg_last.error_type
                   /\ failed_articles[i].error_message = lg_last.error_message
                   /\ failed_articles[i].url = lg_last.url

\* three calls for one uuid, the last with another error: one row, count 3
C31_Witness ==
  /\ lg_kind = "article"
  /\ ~lg_faulted
  /\ Len(failed_articles) = 1
  /\ failed_articles[1].attempt_count = 3
  /\ failed_articles[1].error_type = "e2"
  /\ lg_last.op = "log" /\ lg_last.error_type = "e2"

\* C38: when no call of log_failed_article (log_failed_embedding) is under
\* way, each uuid (each pair of article_uuid and chunk_index) that calls were
\* made for has one row, whose attempt_count is the number of those calls,
\* however the calls interleaved.
C38_OneRowUnderConcurrency ==
  (lg_kind \in {"article", "embedding"} /\ \A w \in Loggers : lg_pc[w] = "idle") =>
    \A key \in LedgerKeys(lg_kind) :
      LET counts ==
            IF lg_kind = "article"
            THEN [i \in {j \in 1..Len(failed_articles) : failed_articles[j].uuid = key.uuid}
                    |-> failed_articles[i].attempt_count]
            ELSE [i \in {j \in 1..Len(failed_embeddings) :
                           /\ failed_embeddings[j].article_uuid = key.uuid
                           /\ failed_embeddings[j].chunk_index = key.chunk_index}
                    |-> failed_embeddings[i].attempt_count]
      IN lg_calls[key] > 0 =>
           /\ Cardinality(DOMAIN counts) = 1
           /\ \A i \in DOMAIN counts : counts[i] = lg_calls[key]

\* C33: get_redirected_url returns a URL only if its host is not the host of
\* the input URL; it reloads at most three times, after waits of 2, 4 and 8
\* seconds, and returns None when the page is still on the input host; when
\* the call returns None or raises, process_single_article reports the item
\* failed, logs a row of failed_articles under the item's uuid and inserts
\* nothing.
C33_BoundedResolution ==
  /\ \E n \in 0..3 : rs_waits = SubSeq(<<2, 4, 8>>, 1, n)
  /\ rs_pc \in {"returned", "processed"} =>
       /\ rs_ret # None => (HostOf(rs_ret) # HostOf(rs_url) /\ rs_ret = rs_final)
       /\ (rs_final = None \/ HostOf(rs_final) = HostOf(rs_url)) => rs_ret = None
  /\ (rs_pc = "processed" /\ rs_last.resolved \in {None, RAISED}) =>
       /\ rs_last.status = "failed"
       /\ rss_articles = {}
       /\ article_metadata = {}
       /\ \E i \in 1..Len(failed_articles) : failed_articles[i].uuid = rs_last.uuid

\* three reloads left the page on the input host, and the item failed
C33_Witness ==
  /\ rs_pc = "processed"
  /\ rs_waits = <<2, 4, 8>>
  /\ rs_ret = None
  /\ rs_last.resolved = None
  /\ rs_last.status = "failed"

====
